---- MODULE Spec2Model ----
(***************************************************************************)
(* Model of the power-pto time-off accounting core: the append-only        *)
(* ledger, the balance snapshot, the request workflow, admin adjustments   *)
(* and the accrual / carryover / expiration engines, each running in its   *)
(* own database transaction (PostgreSQL, READ COMMITTED, row locks taken   *)
(* with SELECT ... FOR UPDATE, unique constraints on the ledger, the       *)
(* request idempotency key and the snapshot primary key).                  *)
(***************************************************************************)
EXTENDS Integers, Sequences, FiniteSets, TLC

(***************************************************************************)
(* Bounds of the model.                                                    *)
(***************************************************************************)
MaxRequests == 2
MaxMixedRequests == 1
MaxAdjustments == 1

(***************************************************************************)
(* Python None for optional integer fields.                                *)
(***************************************************************************)
NULL == -1

Max(a, b) == IF a >= b THEN a ELSE b
Min(a, b) == IF a <= b THEN a ELSE b
Abs(a) == IF a < 0 THEN 0 - a ELSE a

(***************************************************************************)
(* Civil dates (datetime.date) as proleptic Gregorian ordinals.            *)
(***************************************************************************)
Years == 2024..2027
Months == 1..12

IsLeap(y) == (y % 4 = 0) /\ ((y % 100 # 0) \/ (y % 400 = 0))

\* calendar.monthrange(y, m)[1]
monthrange(y, m) ==
    IF m = 2 THEN (IF IsLeap(y) THEN 29 ELSE 28)
    ELSE IF m \in {4, 6, 9, 11} THEN 30 ELSE 31

RECURSIVE DaysBeforeMonth(_, _)
DaysBeforeMonth(y, m) ==
    IF m = 1 THEN 0 ELSE DaysBeforeMonth(y, m - 1) + monthrange(y, m - 1)

DaysBeforeYear(y) ==
    ((y - 1) * 365) + ((y - 1) \div 4) - ((y - 1) \div 100) + ((y - 1) \div 400)

\* date(y, m, d).toordinal()
Date(y, m, d) == DaysBeforeYear(y) + DaysBeforeMonth(y, m) + d

\* the inverse, tabulated over the years of the model
Ordinals == Date(2024, 1, 1)..Date(2027, 12, 31)
YearTable ==
    [o \in Ordinals |-> CHOOSE y \in Years : Date(y, 1, 1) <= o /\ o < Date(y + 1, 1, 1)]
MonthTable ==
    [o \in Ordinals |->
        CHOOSE m \in Months :
            /\ Date(YearTable[o], m, 1) <= o
            /\ o < Date(YearTable[o], m, 1) + monthrange(YearTable[o], m)]
YearOf(o) == YearTable[o]
MonthOf(o) == MonthTable[o]
DayOf(o) == o - Date(YearOf(o), MonthOf(o), 1) + 1

(***************************************************************************)
(* Identities.  One tenant, one employee with two policies, an admin and   *)
(* a second employee who owns no request.                                  *)
(***************************************************************************)
Companies == {"c1"}
Employees == {"e1"}
Policies == {"p1", "p2"}
Triples == Companies \X Employees \X Policies

Admin == [company_id |-> "c1", user_id |-> "a1", role |-> "admin"]
Owner == [company_id |-> "c1", user_id |-> "e1", role |-> "employee"]
Other == [company_id |-> "c1", user_id |-> "e2", role |-> "employee"]
Actors == {Admin, Owner, Other}

\* an admin of another company, which owns no row
Foreign == [company_id |-> "c2", user_id |-> "b1", role |-> "admin"]

Txns == {1, 2}

(***************************************************************************)
(* Policy settings (schemas/policy.py).                                    *)
(***************************************************************************)
CarryoverOff == [enabled |-> FALSE, cap_minutes |-> NULL, expires_after_days |-> NULL]
ExpirationOff == [enabled |-> FALSE, expires_on_month |-> NULL, expires_on_day |-> NULL]

TimeAccrualSettings ==
    [type |-> "ACCRUAL", accrual_method |-> "TIME",
     accrual_frequency |-> "MONTHLY", accrual_timing |-> "START_OF_PERIOD",
     rate_minutes_per_year |-> NULL, rate_minutes_per_month |-> 480,
     rate_minutes_per_day |-> NULL,
     proration |-> "DAYS_ACTIVE",
     allow_negative |-> FALSE, negative_limit_minutes |-> NULL,
     bank_cap_minutes |-> 720,
     tenure_tiers |-> {},
     carryover |-> [enabled |-> TRUE, cap_minutes |-> 240, expires_after_days |-> 1],
     expiration |-> [enabled |-> TRUE, expires_on_month |-> 1, expires_on_day |-> 2],
     accrue_minutes |-> NULL, per_worked_minutes |-> NULL]

HoursWorkedAccrualSettings ==
    [type |-> "ACCRUAL", accrual_method |-> "HOURS_WORKED",
     accrual_frequency |-> "NONE", accrual_timing |-> "NONE",
     rate_minutes_per_year |-> NULL, rate_minutes_per_month |-> NULL,
     rate_minutes_per_day |-> NULL,
     proration |-> "NONE",
     allow_negative |-> TRUE, negative_limit_minutes |-> 240,
     bank_cap_minutes |-> 300,
     tenure_tiers |-> {},
     carryover |-> CarryoverOff,
     expiration |-> ExpirationOff,
     accrue_minutes |-> 60, per_worked_minutes |-> 1440]

UnlimitedSettings ==
    [type |-> "UNLIMITED", accrual_method |-> "NONE",
     accrual_frequency |-> "NONE", accrual_timing |-> "NONE",
     rate_minutes_per_year |-> NULL, rate_minutes_per_month |-> NULL,
     rate_minutes_per_day |-> NULL,
     proration |-> "NONE",
     allow_negative |-> FALSE, negative_limit_minutes |-> NULL,
     bank_cap_minutes |-> NULL,
     tenure_tiers |-> {},
     carryover |-> CarryoverOff,
     expiration |-> ExpirationOff,
     accrue_minutes |-> NULL, per_worked_minutes |-> NULL]

(***************************************************************************)
(* Pure helpers of the accrual engine (services/accrual.py).               *)
(***************************************************************************)
\* (period_start, period_end) of the half-open accrual period
get_period_boundaries(frequency, target_date) ==
    IF frequency = "DAILY" THEN <<target_date, target_date + 1>>
    ELSE IF frequency = "MONTHLY" THEN
        LET period_start == Date(YearOf(target_date), MonthOf(target_date), 1)
        IN  <<period_start,
              period_start + monthrange(YearOf(target_date), MonthOf(target_date))>>
    ELSE <<Date(YearOf(target_date), 1, 1), Date(YearOf(target_date) + 1, 1, 1)>>

is_accrual_date(frequency, timing, target_date) ==
    IF frequency = "DAILY" THEN TRUE
    ELSE IF frequency = "MONTHLY" THEN
        IF timing = "START_OF_PERIOD" THEN DayOf(target_date) = 1
        ELSE DayOf(target_date) = monthrange(YearOf(target_date), MonthOf(target_date))
    ELSE IF timing = "START_OF_PERIOD"
         THEN MonthOf(target_date) = 1 /\ DayOf(target_date) = 1
         ELSE MonthOf(target_date) = 12 /\ DayOf(target_date) = 31

resolve_accrual_rate(settings, hire_date, assignment_from, target_date) ==
    LET base_rate ==
            IF settings.accrual_frequency = "DAILY" THEN settings.rate_minutes_per_day
            ELSE IF settings.accrual_frequency = "MONTHLY" THEN settings.rate_minutes_per_month
            ELSE IF settings.accrual_frequency = "YEARLY" THEN settings.rate_minutes_per_year
            ELSE NULL
        start == IF hire_date # NULL THEN hire_date ELSE assignment_from
        months == (YearOf(target_date) - YearOf(start)) * 12
                    + (MonthOf(target_date) - MonthOf(start))
        matching == {t \in settings.tenure_tiers : months >= t.min_months}
    IN  IF base_rate = NULL THEN 0
        ELSE IF settings.tenure_tiers = {} THEN base_rate
        ELSE IF matching = {} THEN base_rate
        ELSE (CHOOSE t \in matching :
                \A u \in matching : u.min_months <= t.min_months).accrual_rate_minutes

compute_accrual_amount(settings, target_date, assignment_effective_from, hire_date) ==
    LET rate == resolve_accrual_rate(settings, hire_date, assignment_effective_from, target_date)
        period == get_period_boundaries(settings.accrual_frequency, target_date)
        total_days == period[2] - period[1]
        active_start == Max(assignment_effective_from, period[1])
        active_days == period[2] - active_start
    IN  IF rate <= 0 THEN 0
        ELSE IF settings.proration = "NONE" THEN rate
        ELSE IF total_days <= 0 THEN 0
        ELSE IF active_days >= total_days THEN rate
        ELSE IF active_days <= 0 THEN 0
        ELSE (rate * active_days) \div total_days

\* mutant: the accrual is posted without looking at the bank cap
apply_no_cap(current_accrued, accrual_amount, bank_cap_minutes) == accrual_amount

apply_bank_cap(current_accrued, accrual_amount, bank_cap_minutes) ==
    IF bank_cap_minutes = NULL THEN accrual_amount
    ELSE IF bank_cap_minutes - current_accrued <= 0 THEN 0
    ELSE Min(accrual_amount, bank_cap_minutes - current_accrued)

compute_hours_worked_accrual(settings, worked_minutes) ==
    (worked_minutes * settings.accrue_minutes) \div settings.per_worked_minutes

(***************************************************************************)
(* Duration calculator (services/duration.py).  Instants are minutes on    *)
(* the employee's local clock counted from Monday 2025-01-06 00:00, so     *)
(* that day 0 is a Monday; local day d covers [d*1440, (d+1)*1440).        *)
(***************************************************************************)
DEFAULT_WORKDAY_MINUTES == 480
WORK_START_HOUR == 9
WORK_START_MINUTE == 0
MinutesPerDay == 24 * 60

\* InMemoryEmployeeService: the seeded employees and their schedule
EmployeeInfo == [e \in Employees |-> [workday_minutes |-> 480, hire_date |-> NULL]]

\* company_holiday rows as (company, local day); day 1 is a holiday
CompanyHoliday == {<<"c1", 1>>}

fetch_holiday_dates(company_id, start_date, end_date) ==
    {d \in start_date..end_date : <<company_id, d>> \in CompanyHoliday}

compute_day_minutes(current_date, local_start, local_end, workday_minutes) ==
    LET day_work_start == (current_date * MinutesPerDay)
                            + (WORK_START_HOUR * 60) + WORK_START_MINUTE
        day_work_end == day_work_start + workday_minutes
        overlap_start == Max(local_start, day_work_start)
        overlap_end == Min(local_end, day_work_end)
    IN  IF overlap_start >= overlap_end THEN 0 ELSE overlap_end - overlap_start

RECURSIVE SumDays(_, _, _, _, _, _)
SumDays(current_date, end_date, holiday_dates, local_start, local_end, workday_minutes) ==
    IF current_date > end_date THEN 0
    ELSE (IF (current_date % 7) >= 5 \/ current_date \in holiday_dates
          THEN 0
          ELSE compute_day_minutes(current_date, local_start, local_end, workday_minutes))
         + SumDays(current_date + 1, end_date, holiday_dates,
                   local_start, local_end, workday_minutes)

\* the total; the caller's "total_minutes <= 0" check is in submit_request
calculate_requested_minutes(company_id, employee_id, start_at, end_at) ==
    LET workday_minutes ==
            IF employee_id \in DOMAIN EmployeeInfo
            THEN EmployeeInfo[employee_id].workday_minutes
            ELSE DEFAULT_WORKDAY_MINUTES
        start_date == start_at \div MinutesPerDay
        end_date == end_at \div MinutesPerDay
    IN  SumDays(start_date, end_date,
                fetch_holiday_dates(company_id, start_date, end_date),
                start_at, end_at, workday_minutes)

(***************************************************************************)
(* Inputs drawn by the operations.                                         *)
(***************************************************************************)
\* SubmitRequestPayload values: the two adjacent half days of Monday and the
\* whole Monday (overlapping both) on p2, the first half day on p1 under
\* the key already used on p2, and the working hours of the holiday
SubmitPayloads ==
    {[employee_id |-> "e1", policy_id |-> "p2", start_at |-> 540, end_at |-> 780,
      idempotency_key |-> "k1"],
     [employee_id |-> "e1", policy_id |-> "p2", start_at |-> 780, end_at |-> 1020,
      idempotency_key |-> ""],
     [employee_id |-> "e1", policy_id |-> "p2", start_at |-> 540, end_at |-> 1020,
      idempotency_key |-> ""],
     [employee_id |-> "e1", policy_id |-> "p1", start_at |-> 540, end_at |-> 780,
      idempotency_key |-> "k1"],
     [employee_id |-> "e1", policy_id |-> "p2", start_at |-> 1980, end_at |-> 2460,
      idempotency_key |-> ""]}

\* CreateAdjustmentRequest values
AdjustmentPayloads ==
    {[employee_id |-> "e1", policy_id |-> "p1", amount_minutes |-> 480],
     [employee_id |-> "e1", policy_id |-> "p2", amount_minutes |-> 240],
     [employee_id |-> "e1", policy_id |-> "p2", amount_minutes |-> 0 - 240]}

TargetDates == {Date(2026, 1, 1), Date(2026, 1, 2)}

\* PayrollProcessedPayload values (one employee entry each)
PayrollPayloads ==
    {[company_id |-> "c1", payroll_run_id |-> 1, period_end |-> Date(2025, 12, 31),
      employee_id |-> "e1", worked_minutes |-> 5760],
     [company_id |-> "c1", payroll_run_id |-> 2, period_end |-> Date(2025, 12, 31),
      employee_id |-> "e1", worked_minutes |-> 2880]}

(***************************************************************************)
(* State.                                                                  *)
(***************************************************************************)
VARIABLES
    today,        \* date.today()
    versions,     \* time_off_policy_version rows, per policy, by version
    assignments,  \* time_off_policy_assignment rows
    requests,     \* time_off_request rows, indexed by id
    ledger,       \* time_off_ledger_entry rows (committed)
    snapshots,    \* time_off_balance_snapshot rows (committed), per triple
    audit,        \* audit_log rows (committed)
    lock,         \* holder of the row lock / pending insert of a snapshot
    tx            \* the in-flight transactions (sessions)

vars == <<today, versions, assignments, requests, ledger, snapshots, audit, lock, tx>>
dbvars == <<requests, ledger, snapshots, audit>>
cfgvars == <<today, versions, assignments>>

NoSnapshot ==
    [exists |-> FALSE, accrued_minutes |-> 0, used_minutes |-> 0,
     held_minutes |-> 0, available_minutes |-> 0, version |-> 0]

NoRow == [company_id |-> "", employee_id |-> "", policy_id |-> "",
          effective_from |-> 0, version_id |-> 0]

NoSettings == [type |-> ""]

\* a session with no transaction in progress
IdleTx ==
    [op |-> "idle", pc |-> "idle", res |-> "", msg |-> "", ret |-> 0,
     company_id |-> "", employee_id |-> "", policy_id |-> "", version_id |-> 0,
     rid |-> 0, start_at |-> 0, end_at |-> 0, requested_minutes |-> 0,
     idempotency_key |-> "", amount_minutes |-> 0, new_status |-> "",
     target_date |-> 0, worked_minutes |-> 0, payroll_run_id |-> 0,
     rows |-> {}, row |-> NoRow, phase |-> "", carried_minutes |-> 0,
     wsnap |-> [t \in Triples |-> NoSnapshot], created |-> {},
     wledger |-> {}, waudit |-> {},
     processed |-> 0, posted |-> 0, expired |-> 0, skipped |-> 0, errors |-> 0,
     failed |-> FALSE,
     assignment_id |-> 0, effective_from |-> 0, effective_to |-> 0,
     settings |-> NoSettings, user_id |-> "", role |-> ""]

(***************************************************************************)
(* Policy versions (services/policy.py).                                   *)
(***************************************************************************)
VersionRows(policy_id) ==
    IF policy_id \in DOMAIN versions
    THEN {versions[policy_id][k] : k \in 1..Len(versions[policy_id])}
    ELSE {}

\* WHERE effective_to IS NULL ORDER BY version DESC LIMIT 1; {} is None
get_current_version(policy_id) ==
    LET open == {v \in VersionRows(policy_id) : v.effective_to = NULL}
    IN  {v \in open : \A u \in open : u.version <= v.version}

\* version_effective_on(policy, d): effective_from <= d < COALESCE(effective_to, +inf)
get_version_effective_on(policy_id, d) ==
    LET eff == {v \in VersionRows(policy_id) :
                    v.effective_from <= d /\ (v.effective_to = NULL \/ v.effective_to > d)}
    IN  {v \in eff : \A u \in eff : u.version <= v.version}

(***************************************************************************)
(* Assignments (services/assignment.py).                                   *)
(***************************************************************************)
\* mutant: intervals closed at effective_to
ActiveOnClosed(a, d) == a.effective_from <= d /\ (a.effective_to = NULL \/ a.effective_to >= d)

ActiveOn(a, d) == a.effective_from <= d /\ (a.effective_to = NULL \/ a.effective_to > d)

\* the rows of the query; the caller raises 400 when there is none
verify_active_assignment(company_id, employee_id, policy_id, at_date) ==
    {a \in assignments :
        /\ a.company_id = company_id
        /\ a.employee_id = employee_id
        /\ a.policy_id = policy_id
        /\ ActiveOn(a, at_date)}

(***************************************************************************)
(* Ledger (models/ledger.py) and balance snapshot (services/balance.py).   *)
(***************************************************************************)
ACCRUAL_TYPES == {"ACCRUAL", "ADJUSTMENT", "CARRYOVER", "EXPIRATION"}

TimeOffLedgerEntry(c, e, p, vid, etype, amount, stype, sid, carried) ==
    [company_id |-> c, employee_id |-> e, policy_id |-> p, policy_version_id |-> vid,
     entry_type |-> etype, amount_minutes |-> amount,
     source_type |-> stype, source_id |-> sid, carried_minutes |-> carried,
     expired_minutes |-> NULL]

\* uq_ledger_idempotency
LedgerKey(x) == <<x.source_type, x.source_id, x.entry_type>>

RequestSourceId(rid) == <<"request", "", "", rid>>
AdjustmentSourceId(n) == <<"adjustment", "", "", n>>
\* mutant: a source id that differs from one run to the next
build_run_source_id(policy_id, employee_id, target_date) ==
    <<"accrual", policy_id, employee_id, target_date + Cardinality(ledger)>>

\* mutant: a source id that differs from one delivery of the webhook to the next
build_delivery_source_id(payroll_run_id, employee_id, policy_id) ==
    <<"payroll", policy_id, employee_id, payroll_run_id + Cardinality(ledger)>>

build_time_accrual_source_id(policy_id, employee_id, target_date) ==
    <<"accrual", policy_id, employee_id, target_date>>
build_payroll_source_id(payroll_run_id, employee_id, policy_id) ==
    <<"payroll", policy_id, employee_id, payroll_run_id>>

RECURSIVE SumTerms(_)
SumTerms(S) ==
    IF S = {} THEN 0
    ELSE LET x == CHOOSE y \in S : TRUE IN x[2] + SumTerms(S \ {x})

\* (accrued, used, held) recomputed from the ledger rows L of one triple
compute_balance_from_ledger(L, company_id, employee_id, policy_id) ==
    LET base == {x \in L : /\ x.company_id = company_id
                           /\ x.employee_id = employee_id
                           /\ x.policy_id = policy_id}
    IN  [accrued |-> SumTerms({<<x, x.amount_minutes>> :
                        x \in {y \in base : y.entry_type \in ACCRUAL_TYPES}}),
         used |-> SumTerms({<<x, Abs(x.amount_minutes)>> :
                        x \in {y \in base : y.entry_type = "USAGE"}}),
         held |-> SumTerms({<<x, Abs(x.amount_minutes)>> :
                        x \in {y \in base : y.entry_type = "HOLD"}})
                  - SumTerms({<<x, Abs(x.amount_minutes)>> :
                        x \in {y \in base : y.entry_type = "HOLD_RELEASE"}})]

\* the snapshot row a first interaction inserts
NewSnapshot(calc) ==
    [exists |-> TRUE, accrued_minutes |-> calc.accrued, used_minutes |-> calc.used,
     held_minutes |-> calc.held,
     available_minutes |-> calc.accrued - calc.used - calc.held, version |-> 1]

\* mutant: a snapshot update that leaves available_minutes as it was
RecomputeStale(s) == [s EXCEPT !.version = s.version + 1]

\* mutant: a snapshot update that forgets version += 1
RecomputeNoVersion(s) ==
    [s EXCEPT !.available_minutes = s.accrued_minutes - s.used_minutes - s.held_minutes]

Recompute(s) ==
    [s EXCEPT !.available_minutes = s.accrued_minutes - s.used_minutes - s.held_minutes,
              !.version = s.version + 1]

(***************************************************************************)
(* Initial state: both policies exist with one version each, the employee  *)
(* is assigned to both since 2025-01-01, and nothing else has happened.    *)
(***************************************************************************)
PolicyVersion(n, from, to, settings) ==
    [version |-> n, effective_from |-> from, effective_to |-> to,
     type |-> settings.type, accrual_method |-> settings.accrual_method,
     settings |-> settings]

Assignment(id, c, e, p, from, to) ==
    [id |-> id, company_id |-> c, employee_id |-> e, policy_id |-> p,
     effective_from |-> from, effective_to |-> to]

Init ==
    /\ today = Date(2026, 1, 1)
    /\ versions = [p \in Policies |->
            IF p = "p1"
            THEN <<PolicyVersion(1, Date(2025, 1, 1), NULL, TimeAccrualSettings)>>
            ELSE <<PolicyVersion(1, Date(2025, 1, 1), NULL, HoursWorkedAccrualSettings)>>]
    /\ assignments = {Assignment(1, "c1", "e1", "p1", Date(2025, 1, 1), NULL),
                      Assignment(2, "c1", "e1", "p2", Date(2025, 1, 1), NULL)}
    /\ requests = <<>>
    /\ ledger = {}
    /\ snapshots = [t \in Triples |-> NoSnapshot]
    /\ audit = {}
    /\ lock = [t \in Triples |-> 0]
    /\ tx = [i \in Txns |-> IdleTx]

(***************************************************************************)
(* Transactions.  The actions are the service functions; the routes that   *)
(* call approve, deny and the adjustment admit administrators only         *)
(* (AdminDep), so those are invoked as Admin.  A handler reads without     *)
(* locks, then takes the snapshot row lock                                 *)
(* (get_or_create_snapshot_for_update), then writes and commits.  A        *)
(* handler that raises leaves through get_session's context manager,       *)
(* which closes the session: the transaction is rolled back.               *)
(***************************************************************************)
TripleOf(t) == <<t.company_id, t.employee_id, t.policy_id>>

ReleaseLocks(i) == [t \in Triples |-> IF lock[t] = i THEN 0 ELSE lock[t]]

\* what is left of a transaction once its handler has returned or raised
Outcome(t, res, msg, ret) ==
    [IdleTx EXCEPT !.op = t.op, !.pc = "done", !.res = res, !.msg = msg, !.ret = ret,
                   !.company_id = t.company_id, !.employee_id = t.employee_id,
                   !.policy_id = t.policy_id, !.rid = t.rid,
                   !.start_at = t.start_at, !.end_at = t.end_at,
                   !.requested_minutes = t.requested_minutes,
                   !.idempotency_key = t.idempotency_key,
                   !.amount_minutes = t.amount_minutes,
                   !.target_date = t.target_date,
                   !.payroll_run_id = t.payroll_run_id,
                   !.processed = t.processed, !.posted = t.posted,
                   !.expired = t.expired, !.skipped = t.skipped, !.errors = t.errors, !.failed = t.failed,
                   !.assignment_id = t.assignment_id,
                   !.effective_from = t.effective_from, !.effective_to = t.effective_to,
                   !.user_id = t.user_id, !.role = t.role]

\* the handler raised before taking any lock
Reject(i, t, res, msg) ==
    /\ tx' = [tx EXCEPT ![i] = Outcome(t, res, msg, 0)]
    /\ UNCHANGED <<dbvars, lock, cfgvars>>

\* the handler raised inside its transaction: everything pending is discarded
Rollback(i, res, msg, ret) ==
    /\ tx' = [tx EXCEPT ![i] = Outcome(tx[i], res, msg, ret)]
    /\ lock' = ReleaseLocks(i)
    /\ UNCHANGED <<dbvars, cfgvars>>

\* Sending the response and closing the session touches nothing shared, so
\* it is taken before any other step
Quiet == \A j \in Txns : tx[j].pc # "done"

\* a new transaction takes the lowest free session
CanStart(i) ==
    /\ Quiet
    /\ tx[i].pc = "idle"
    /\ \A j \in Txns : j < i => tx[j].pc # "idle"

\* mutant: a ledger without its unique index
NoUniqueIndex(L, x) == FALSE

\* uq_ledger_idempotency would be violated by inserting x next to L
Duplicate(L, x) == \E y \in L : LedgerKey(y) = LedgerKey(x)

(***************************************************************************)
(* get_or_create_snapshot_for_update (services/balance.py).                *)
(***************************************************************************)
\* mutant: the snapshot is read without FOR UPDATE
SnapLockNoWait(i) ==
    LET t == TripleOf(tx[i].row) IN
    /\ Quiet
    /\ tx[i].pc = "lock"
    /\ IF snapshots[t].exists
       THEN /\ lock' = [lock EXCEPT ![t] = i]
            /\ tx' = [tx EXCEPT ![i].pc = "body", ![i].wsnap[t] = snapshots[t]]
       ELSE /\ tx' = [tx EXCEPT ![i].pc = "create",
                        ![i].wsnap[t] = NewSnapshot(compute_balance_from_ledger(
                                            ledger, t[1], t[2], t[3]))]
            /\ UNCHANGED lock
    /\ UNCHANGED <<dbvars, cfgvars>>

\* SELECT ... FOR UPDATE: waits for the holder of the row lock; a row that
\* does not exist (yet) is not locked and the ledger is summed instead
SnapLock(i) ==
    LET t == TripleOf(tx[i].row) IN
    /\ Quiet
    /\ tx[i].pc = "lock"
    /\ IF lock[t] = i
       THEN /\ tx' = [tx EXCEPT ![i].pc = "body"]
            /\ UNCHANGED lock
       ELSE IF snapshots[t].exists
       THEN /\ lock[t] = 0
            /\ lock' = [lock EXCEPT ![t] = i]
            /\ tx' = [tx EXCEPT ![i].pc = "body", ![i].wsnap[t] = snapshots[t]]
       ELSE /\ tx' = [tx EXCEPT ![i].pc = "create",
                        ![i].wsnap[t] = NewSnapshot(compute_balance_from_ledger(
                                            ledger, t[1], t[2], t[3]))]
            /\ UNCHANGED lock
    /\ UNCHANGED <<dbvars, cfgvars>>

\* mutant: the snapshot is written with an upsert instead of an INSERT
SnapCreateUpsert(i) ==
    LET t == TripleOf(tx[i].row) IN
    /\ Quiet
    /\ tx[i].pc = "create"
    /\ lock[t] = 0
    /\ lock' = [lock EXCEPT ![t] = i]
    /\ tx' = [tx EXCEPT ![i].pc = "body", ![i].created = @ \cup {t}]
    /\ UNCHANGED <<dbvars, cfgvars>>

\* session.add(snapshot); flush: the INSERT waits for a pending insert of
\* the same primary key and fails once that one is committed
SnapCreateOk(i) ==
    LET t == TripleOf(tx[i].row) IN
    /\ Quiet
    /\ tx[i].pc = "create"
    /\ ~snapshots[t].exists
    /\ lock[t] = 0
    /\ lock' = [lock EXCEPT ![t] = i]
    /\ tx' = [tx EXCEPT ![i].pc = "body", ![i].created = @ \cup {t}]
    /\ UNCHANGED <<dbvars, cfgvars>>

IsEngine(op) == op \in {"accrual", "payroll", "carryover", "expiration"}

\* IntegrityError on the snapshot primary key.  In a request handler it
\* propagates (500); in an engine the per-row handler counts an error and
\* the session is left rolled back and unusable
SnapCreateFail(i) ==
    LET t == TripleOf(tx[i].row) IN
    /\ Quiet
    /\ tx[i].pc = "create"
    /\ snapshots[t].exists
    /\ IF IsEngine(tx[i].op)
       THEN /\ tx' = [tx EXCEPT ![i].pc = "loop", ![i].errors = @ + 1,
                        ![i].failed = TRUE, ![i].wledger = {}, ![i].waudit = {},
                        ![i].created = {},
                        ![i].wsnap = [u \in Triples |-> NoSnapshot]]
            /\ lock' = ReleaseLocks(i)
            /\ UNCHANGED <<dbvars, cfgvars>>
       ELSE Rollback(i, "Internal", "IntegrityError", 0)

(***************************************************************************)
(* submit_request (services/request.py).                                   *)
(***************************************************************************)
\* the rows _check_request_overlap's query returns
check_request_overlap(company_id, employee_id, policy_id, start_at, end_at) ==
    {k \in 1..Len(requests) :
        /\ requests[k].company_id = company_id
        /\ requests[k].employee_id = employee_id
        /\ requests[k].policy_id = policy_id
        /\ requests[k].status \in {"SUBMITTED", "APPROVED"}
        /\ requests[k].start_at < end_at
        /\ requests[k].end_at > start_at}

\* the rows carrying an idempotency key (uq_request_idempotency)
KeyHolders(company_id, employee_id, key) ==
    {k \in 1..Len(requests) :
        /\ requests[k].company_id = company_id
        /\ requests[k].employee_id = employee_id
        /\ requests[k].idempotency_key = key}

InFlight(op) == Cardinality({j \in Txns : tx[j].op = op /\ tx[j].pc \notin {"idle", "done"}})

\* mutant: submit_request without its balance check
SubmitGateOpen(settings, available_minutes, m) == "ok"

\* steps 7: the balance check of a request of m minutes
SubmitGate(settings, available_minutes, m) ==
    IF settings.type = "UNLIMITED" THEN "ok"
    ELSE LET new_available == available_minutes - m IN
         IF ~settings.allow_negative /\ new_available < 0
         THEN "Insufficient balance for this request"
         ELSE IF /\ settings.allow_negative
                 /\ settings.negative_limit_minutes # NULL
                 /\ new_available < 0 - settings.negative_limit_minutes
         THEN "Request would exceed negative balance limit"
         ELSE "ok"

\* steps 0-4: everything before the snapshot is locked
SubmitStart(i, auth, payload) ==
    LET company_id == auth.company_id
        employee_id == payload.employee_id
        policy_id == payload.policy_id
        t == [IdleTx EXCEPT !.op = "submit", !.company_id = company_id,
                            !.employee_id = employee_id, !.policy_id = policy_id,
                            !.start_at = payload.start_at, !.end_at = payload.end_at,
                            !.idempotency_key = payload.idempotency_key]
        current_version == get_current_version(policy_id)
        requested_minutes ==
            calculate_requested_minutes(company_id, employee_id,
                                        payload.start_at, payload.end_at)
        overlapping ==
            check_request_overlap(company_id, employee_id, policy_id,
                                  payload.start_at, payload.end_at)
    IN
    /\ CanStart(i)
    /\ IF verify_active_assignment(company_id, employee_id, policy_id, today) = {}
       THEN Reject(i, t, "BadRequest",
                   "Employee is not assigned to this policy on the given date")
       ELSE IF current_version = {}
       THEN Reject(i, t, "BadRequest", "Policy has no active version")
       ELSE IF requested_minutes <= 0
       THEN Reject(i, t, "BadRequest",
                   "Request covers no working time after excluding weekends and holidays")
       ELSE IF Cardinality(overlapping) > 1
       THEN Reject(i, t, "Internal", "MultipleResultsFound")
       ELSE IF overlapping # {}
       THEN Reject(i, t, "Conflict",
                   "Request overlaps with an existing submitted or approved request")
       ELSE /\ tx' = [tx EXCEPT ![i] =
                        [t EXCEPT !.pc = "lock",
                                  !.version_id = (CHOOSE v \in current_version : TRUE).version,
                                  !.requested_minutes = requested_minutes,
                                  !.row = [NoRow EXCEPT !.company_id = company_id,
                                                        !.employee_id = employee_id,
                                                        !.policy_id = policy_id]]]
            /\ UNCHANGED <<dbvars, lock, cfgvars>>

\* mutant: the request row left at the column default
TimeOffRequestDraft(me, id) ==
    [id |-> id, company_id |-> me.company_id,
     employee_id |-> me.employee_id, policy_id |-> me.policy_id,
     start_at |-> me.start_at, end_at |-> me.end_at,
     requested_minutes |-> me.requested_minutes,
     status |-> "DRAFT",
     idempotency_key |-> me.idempotency_key]

\* step 8: the request row
TimeOffRequest(me, id) ==
    [id |-> id, company_id |-> me.company_id,
     employee_id |-> me.employee_id, policy_id |-> me.policy_id,
     start_at |-> me.start_at, end_at |-> me.end_at,
     requested_minutes |-> me.requested_minutes,
     status |-> "SUBMITTED",
     idempotency_key |-> me.idempotency_key]

\* steps 7-12, under the snapshot lock
SubmitBody(i) ==
    LET t == TripleOf(tx[i])
        me == tx[i]
        snapshot == me.wsnap[t]
        settings == versions[me.policy_id][me.version_id].settings
        gate == SubmitGate(settings, snapshot.available_minutes, me.requested_minutes)
        existing == KeyHolders(me.company_id, me.employee_id, me.idempotency_key)
        id == Len(requests) + 1
        hold_entry == TimeOffLedgerEntry(me.company_id, me.employee_id, me.policy_id,
                          me.version_id, "HOLD", 0 - me.requested_minutes,
                          "REQUEST", RequestSourceId(id), NULL)
    IN
    /\ Quiet
    /\ me.pc = "body" /\ me.op = "submit"
    /\ IF gate # "ok"
       THEN Rollback(i, "BadRequest", gate, 0)
       ELSE IF me.idempotency_key # "" /\ existing # {}
       THEN \* IntegrityError on flush: rollback, then return the existing row
            Rollback(i, "OK", "existing", CHOOSE k \in existing : TRUE)
       ELSE /\ requests' = Append(requests, TimeOffRequest(me, id))
            /\ ledger' = ledger \cup {hold_entry}
            /\ snapshots' = [snapshots EXCEPT ![t] =
                    Recompute([snapshot EXCEPT !.held_minutes = @ + me.requested_minutes])]
            /\ audit' = audit \cup {[entity_type |-> "REQUEST",
                                     entity_id |-> RequestSourceId(id),
                                     entry_type |-> "", action |-> "SUBMIT"]}
            /\ lock' = ReleaseLocks(i)
            /\ tx' = [tx EXCEPT ![i] = Outcome(me, "OK", "created", id)]
            /\ UNCHANGED cfgvars

(***************************************************************************)
(* validate_company_scope (api/deps.py), the dependency of every router    *)
(* under /companies/{company_id}, and list_requests (services/request.py). *)
(***************************************************************************)
\* a call whose path company is not the caller's: refused before the handler
ScopeDenied(i, auth, company_id) ==
    LET t == [IdleTx EXCEPT !.op = "scope", !.company_id = company_id,
                            !.user_id = auth.user_id, !.role = auth.role] IN
    /\ CanStart(i)
    /\ company_id # auth.company_id
    /\ Reject(i, t, "Forbidden", "Company ID mismatch")

\* list_requests: the total of the rows of the caller's company
ListRequests(i, auth) ==
    LET t == [IdleTx EXCEPT !.op = "list_requests", !.company_id = auth.company_id,
                            !.user_id = auth.user_id, !.role = auth.role]
        total == Cardinality({k \in 1..Len(requests) :
                                requests[k].company_id = auth.company_id})
    IN
    /\ CanStart(i)
    /\ tx' = [tx EXCEPT ![i] = Outcome(t, "OK", "listed", total)]
    /\ UNCHANGED <<dbvars, lock, cfgvars>>

(***************************************************************************)
(* approve_request, deny_request, cancel_request (services/request.py).    *)
(***************************************************************************)
\* _get_request_or_404: the matching rows
get_request_or_404(company_id, request_id) ==
    {k \in 1..Len(requests) : k = request_id /\ requests[k].company_id = company_id}

\* the request is loaded into the session and the snapshot lock is awaited
Decide(i, t, r, new_status) ==
    IF get_current_version(r.policy_id) = {}
    THEN Reject(i, t, "BadRequest", "Policy has no active version")
    ELSE /\ tx' = [tx EXCEPT ![i] =
                [t EXCEPT !.pc = "lock", !.new_status = new_status,
                          !.company_id = r.company_id, !.employee_id = r.employee_id,
                          !.policy_id = r.policy_id,
                          !.version_id =
                              (CHOOSE v \in get_current_version(r.policy_id) : TRUE).version,
                          !.requested_minutes = r.requested_minutes,
                          !.row = [NoRow EXCEPT !.company_id = r.company_id,
                                                !.employee_id = r.employee_id,
                                                !.policy_id = r.policy_id]]]
         /\ UNCHANGED <<dbvars, lock, cfgvars>>

\* mutant: approve_request without its status check
ApproveStartUnchecked(i, auth, request_id) ==
    LET t == [IdleTx EXCEPT !.op = "approve", !.rid = request_id] IN
    /\ CanStart(i)
    /\ IF get_request_or_404(auth.company_id, request_id) = {}
       THEN Reject(i, t, "NotFound", "Request not found")
       ELSE Decide(i, t, requests[request_id], "APPROVED")

ApproveStart(i, auth, request_id) ==
    LET t == [IdleTx EXCEPT !.op = "approve", !.rid = request_id] IN
    /\ CanStart(i)
    /\ IF get_request_or_404(auth.company_id, request_id) = {}
       THEN Reject(i, t, "NotFound", "Request not found")
       ELSE IF requests[request_id].status # "SUBMITTED"
       THEN Reject(i, t, "BadRequest", "Only submitted requests can be approved")
       ELSE Decide(i, t, requests[request_id], "APPROVED")

DenyStart(i, auth, request_id) ==
    LET t == [IdleTx EXCEPT !.op = "deny", !.rid = request_id] IN
    /\ CanStart(i)
    /\ IF get_request_or_404(auth.company_id, request_id) = {}
       THEN Reject(i, t, "NotFound", "Request not found")
       ELSE IF requests[request_id].status # "SUBMITTED"
       THEN Reject(i, t, "BadRequest", "Only submitted requests can be denied")
       ELSE Decide(i, t, requests[request_id], "DENIED")

\* mutant: cancel_request open to every actor of the company
MayCancelAnyone(auth, r) == TRUE

\* auth.user_id == request.employee_id or auth.role == "admin"
MayCancel(auth, r) == auth.user_id = r.employee_id \/ auth.role = "admin"

CancelStart(i, auth, request_id) ==
    LET t == [IdleTx EXCEPT !.op = "cancel", !.rid = request_id,
                            !.user_id = auth.user_id, !.role = auth.role] IN
    /\ CanStart(i)
    /\ IF get_request_or_404(auth.company_id, request_id) = {}
       THEN Reject(i, t, "NotFound", "Request not found")
       ELSE IF requests[request_id].status # "SUBMITTED"
       THEN Reject(i, t, "BadRequest", "Only submitted requests can be cancelled")
       ELSE IF ~MayCancel(auth, requests[request_id])
       THEN Reject(i, t, "Forbidden", "Not authorized to cancel this request")
       ELSE Decide(i, t, requests[request_id], "CANCELLED")

\* mutant: approve_request posting no USAGE row
ApproveEntriesNoUsage(me) ==
    {TimeOffLedgerEntry(me.company_id, me.employee_id, me.policy_id, me.version_id,
                        "HOLD_RELEASE", me.requested_minutes,
                        "REQUEST", RequestSourceId(me.rid), NULL)}

\* the rows approve_request adds for the request it loaded
ApproveEntries(me) ==
    {TimeOffLedgerEntry(me.company_id, me.employee_id, me.policy_id, me.version_id,
                        "HOLD_RELEASE", me.requested_minutes,
                        "REQUEST", RequestSourceId(me.rid), NULL),
     TimeOffLedgerEntry(me.company_id, me.employee_id, me.policy_id, me.version_id,
                        "USAGE", 0 - me.requested_minutes,
                        "REQUEST", RequestSourceId(me.rid), NULL)}

\* mutant: approve_request forgetting used_minutes
ApproveSnapshotNoUsage(snapshot, m) ==
    [snapshot EXCEPT !.held_minutes = @ - m, !.version = @ + 1,
                     !.available_minutes = snapshot.accrued_minutes
                         - snapshot.used_minutes - (snapshot.held_minutes - m)]

\* mutant: approve_request leaving held_minutes as it was
ApproveSnapshotKeepsHeld(snapshot, m) ==
    Recompute([snapshot EXCEPT !.used_minutes = @ + m])

\* the snapshot after approve_request's update
ApproveSnapshot(snapshot, m) ==
    Recompute([snapshot EXCEPT !.held_minutes = @ - m, !.used_minutes = @ + m])

\* mutant: _release_hold posting no HOLD_RELEASE row
ReleaseEntriesNone(me) == {}

\* the row _release_hold adds
ReleaseEntries(me) ==
    {TimeOffLedgerEntry(me.company_id, me.employee_id, me.policy_id, me.version_id,
                        "HOLD_RELEASE", me.requested_minutes,
                        "REQUEST", RequestSourceId(me.rid), NULL)}

\* mutant: _release_hold without held -= requested_minutes
ReleaseSnapshotKeepsHeld(snapshot, m) == Recompute(snapshot)

\* the snapshot after _release_hold's update
ReleaseSnapshot(snapshot, m) ==
    Recompute([snapshot EXCEPT !.held_minutes = @ - m])

\* flush and commit of a decision: the ledger rows, the snapshot and the
\* request row loaded at the start (its in-memory copy is never refreshed)
CommitDecision(i, entries, snapshot, action) ==
    LET me == tx[i]
        t == TripleOf(me)
    IN
    IF \E x \in entries : Duplicate(ledger, x)
    THEN Rollback(i, "Internal", "IntegrityError", 0)
    ELSE /\ ledger' = ledger \cup entries
         /\ snapshots' = [snapshots EXCEPT ![t] = snapshot]
         /\ requests' = [requests EXCEPT ![me.rid].status = me.new_status]
         /\ audit' = audit \cup {[entity_type |-> "REQUEST",
                                  entity_id |-> RequestSourceId(me.rid),
                                  entry_type |-> "", action |-> action]}
         /\ lock' = ReleaseLocks(i)
         /\ tx' = [tx EXCEPT ![i] = Outcome(me, "OK", "decided", me.rid)]
         /\ UNCHANGED cfgvars

ApproveBody(i) ==
    /\ Quiet
    /\ tx[i].pc = "body" /\ tx[i].op = "approve"
    /\ CommitDecision(i, ApproveEntries(tx[i]),
                      ApproveSnapshot(tx[i].wsnap[TripleOf(tx[i])], tx[i].requested_minutes),
                      "APPROVE")

ReleaseHoldBody(i) ==
    /\ Quiet
    /\ tx[i].pc = "body" /\ tx[i].op \in {"deny", "cancel"}
    /\ CommitDecision(i, ReleaseEntries(tx[i]),
                      ReleaseSnapshot(tx[i].wsnap[TripleOf(tx[i])], tx[i].requested_minutes),
                      IF tx[i].op = "deny" THEN "DENY" ELSE "CANCEL")

(***************************************************************************)
(* create_adjustment (services/balance.py).                                *)
(***************************************************************************)
Adjustments(L) == {x \in L : x.entry_type = "ADJUSTMENT"}

\* mutant: create_adjustment without its balance check
AdjustGateOpen(settings, available_minutes, amount_minutes) == "ok"

\* step 5: the balance check of an adjustment
AdjustGate(settings, available_minutes, amount_minutes) ==
    IF settings.type = "UNLIMITED" \/ amount_minutes >= 0 THEN "ok"
    ELSE LET new_available == available_minutes + amount_minutes IN
         IF ~settings.allow_negative /\ new_available < 0
         THEN "Insufficient balance for this adjustment"
         ELSE IF /\ settings.allow_negative
                 /\ settings.negative_limit_minutes # NULL
                 /\ new_available < 0 - settings.negative_limit_minutes
         THEN "Adjustment would exceed negative balance limit"
         ELSE "ok"

AdjustStart(i, auth, payload) ==
    LET employee_id == payload.employee_id
        policy_id == payload.policy_id
        t == [IdleTx EXCEPT !.op = "adjust", !.company_id = auth.company_id,
                            !.employee_id = employee_id, !.policy_id = policy_id,
                            !.amount_minutes = payload.amount_minutes]
        current_version == get_current_version(policy_id)
    IN
    /\ CanStart(i)
    /\ IF verify_active_assignment(auth.company_id, employee_id, policy_id, today) = {}
       THEN Reject(i, t, "BadRequest",
                   "Employee is not assigned to this policy on the given date")
       ELSE IF current_version = {}
       THEN Reject(i, t, "BadRequest", "Policy has no active version")
       ELSE /\ tx' = [tx EXCEPT ![i] =
                        [t EXCEPT !.pc = "lock",
                                  !.version_id = (CHOOSE v \in current_version : TRUE).version,
                                  !.row = [NoRow EXCEPT !.company_id = auth.company_id,
                                                        !.employee_id = employee_id,
                                                        !.policy_id = policy_id]]]
            /\ UNCHANGED <<dbvars, lock, cfgvars>>

AdjustBody(i) ==
    LET me == tx[i]
        t == TripleOf(me)
        snapshot == me.wsnap[t]
        settings == versions[me.policy_id][me.version_id].settings
        gate == AdjustGate(settings, snapshot.available_minutes, me.amount_minutes)
        entry_id == AdjustmentSourceId(Cardinality(Adjustments(ledger)) + 1)
        entry == TimeOffLedgerEntry(me.company_id, me.employee_id, me.policy_id,
                     me.version_id, "ADJUSTMENT", me.amount_minutes,
                     "ADMIN", entry_id, NULL)
    IN
    /\ Quiet
    /\ me.pc = "body" /\ me.op = "adjust"
    /\ IF gate # "ok"
       THEN Rollback(i, "BadRequest", gate, 0)
       ELSE /\ ledger' = ledger \cup {entry}
            /\ snapshots' = [snapshots EXCEPT ![t] =
                    Recompute([snapshot EXCEPT !.accrued_minutes = @ + me.amount_minutes])]
            /\ audit' = audit \cup {[entity_type |-> "ADJUSTMENT", entity_id |-> entry_id,
                                     entry_type |-> "ADJUSTMENT", action |-> "CREATE"]}
            /\ lock' = ReleaseLocks(i)
            /\ tx' = [tx EXCEPT ![i] = Outcome(me, "OK", "adjusted", 0)]
            /\ UNCHANGED <<requests, cfgvars>>

(***************************************************************************)
(* create_policy and update_policy (services/policy.py).  Neither takes a  *)
(* lock: the key and the current version are read by plain SELECTs, and    *)
(* the unique constraints decide at the flush.  A policy is identified     *)
(* by its key, and a version row by its position in versions[policy].      *)
(***************************************************************************)
\* uq_policy_company_key would be violated by inserting a policy with this key
PolicyKeyTaken(key) == key \in DOMAIN versions

\* mutant: policy versions without their unique constraint
NoVersionNumberIndex(policy_id, n) == FALSE

\* uq_policy_version_number would be violated by inserting version n
VersionNumberTaken(policy_id, n) ==
    \E v \in VersionRows(policy_id) : v.version = n

PolicyVersionAudit(policy_id, n, action) ==
    [entity_type |-> "POLICY_VERSION",
     entity_id |-> <<"policy_version", policy_id, "", n>>,
     entry_type |-> "", action |-> action]

\* create_policy up to the check of the key
CreatePolicyStart(i, auth, payload) ==
    LET t == [IdleTx EXCEPT !.op = "create_policy", !.company_id = auth.company_id,
                            !.policy_id = payload.key,
                            !.effective_from = payload.effective_from,
                            !.settings = payload.settings]
    IN
    /\ CanStart(i)
    /\ IF PolicyKeyTaken(payload.key)
       THEN Reject(i, t, "Conflict",
                   "Policy with this key already exists for this company")
       ELSE /\ tx' = [tx EXCEPT ![i] = [t EXCEPT !.pc = "insert"]]
            /\ UNCHANGED <<dbvars, lock, cfgvars>>

\* create_policy from the insert of the policy to the commit; the
\* IntegrityError of the flush is not caught
CreatePolicyBody(i) ==
    LET me == tx[i]
        version == PolicyVersion(1, me.effective_from, NULL, me.settings)
    IN
    /\ me.op = "create_policy" /\ me.pc = "insert"
    /\ Quiet
    /\ IF PolicyKeyTaken(me.policy_id)
       THEN Rollback(i, "Internal", "IntegrityError", 0)
       ELSE /\ versions' = [p \in DOMAIN versions \cup {me.policy_id} |->
                                IF p = me.policy_id THEN <<version>> ELSE versions[p]]
            /\ audit' = audit \cup
                    {[entity_type |-> "POLICY",
                      entity_id |-> <<"policy", me.policy_id, "", 0>>,
                      entry_type |-> "", action |-> "CREATE"],
                     PolicyVersionAudit(me.policy_id, 1, "CREATE")}
            /\ tx' = [tx EXCEPT ![i] = Outcome(me, "OK", "created", 0)]
            /\ UNCHANGED <<today, assignments, requests, ledger, snapshots, lock>>

\* mutant: update_policy without its check of effective_from
PrecedesNever(effective_from, current) == FALSE

\* payload.version.effective_from < current_version.effective_from
PrecedesCurrent(effective_from, current) == effective_from < current.effective_from

\* update_policy up to the check of effective_from
UpdatePolicyStart(i, auth, policy_id, payload) ==
    LET t == [IdleTx EXCEPT !.op = "update_policy", !.company_id = auth.company_id,
                            !.user_id = auth.user_id, !.role = auth.role,
                            !.policy_id = policy_id,
                            !.effective_from = payload.effective_from,
                            !.settings = payload.settings]
        current_version == get_current_version(policy_id)
        current == CHOOSE v \in current_version : TRUE
    IN
    /\ CanStart(i)
    /\ IF policy_id \notin DOMAIN versions \/ auth.company_id \notin Companies
       THEN Reject(i, t, "NotFound", "Policy not found")
       ELSE IF current_version = {}
       THEN Reject(i, t, "NotFound", "Policy has no current version")
       ELSE IF PrecedesCurrent(payload.effective_from, current)
       THEN Reject(i, t, "BadRequest",
                   "New version effective_from must not precede current version's effective_from")
       ELSE /\ tx' = [tx EXCEPT ![i] = [t EXCEPT !.pc = "flush",
                                                 !.version_id = current.version]]
            /\ UNCHANGED <<dbvars, lock, cfgvars>>

\* update_policy from the end-dating of the version it read to the commit:
\* the UPDATE is by primary key, the INSERT carries the number after the one
\* read, and the IntegrityError of the flush is not caught
UpdatePolicyBody(i) ==
    LET me == tx[i]
        policy_id == me.policy_id
        new_version == PolicyVersion(me.version_id + 1, me.effective_from,
                                     NULL, me.settings)
    IN
    /\ me.op = "update_policy" /\ me.pc = "flush"
    /\ Quiet
    /\ IF VersionNumberTaken(policy_id, new_version.version)
       THEN Rollback(i, "Internal", "IntegrityError", 0)
       ELSE /\ versions' = [versions EXCEPT ![policy_id] =
                    Append([@ EXCEPT ![me.version_id].effective_to =
                                        me.effective_from],
                           new_version)]
            /\ audit' = audit \cup
                    {PolicyVersionAudit(policy_id, me.version_id, "UPDATE"),
                     PolicyVersionAudit(policy_id, new_version.version, "CREATE")}
            /\ tx' = [tx EXCEPT ![i] = Outcome(me, "OK", "updated", 0)]
            /\ UNCHANGED <<today, assignments, requests, ledger, snapshots, lock>>

(***************************************************************************)
(* create_assignment and end_date_assignment (services/assignment.py).     *)
(* Neither takes a lock: the overlap check and the read of the row are     *)
(* plain SELECTs, so another session may commit between them and the       *)
(* flush.                                                                  *)
(***************************************************************************)
\* the rows of _check_overlap's query
check_overlap(company_id, employee_id, policy_id, effective_from, effective_to) ==
    {a \in assignments :
        /\ a.company_id = company_id
        /\ a.employee_id = employee_id
        /\ a.policy_id = policy_id
        /\ (a.effective_to = NULL \/ a.effective_to > effective_from)
        /\ (effective_to = NULL \/ a.effective_from < effective_to)}

\* uq_assignment_employee_policy_from would be violated by inserting x
DuplicateAssignment(x) ==
    \E a \in assignments :
        /\ a.company_id = x.company_id
        /\ a.employee_id = x.employee_id
        /\ a.policy_id = x.policy_id
        /\ a.effective_from = x.effective_from

AssignmentAudit(a, action) ==
    [entity_type |-> "ASSIGNMENT",
     entity_id |-> <<"assignment", a.policy_id, a.employee_id, a.id>>,
     entry_type |-> "", action |-> action]

\* create_assignment up to the end of _check_overlap
CreateAssignmentStart(i, auth, policy_id, payload) ==
    LET t == [IdleTx EXCEPT !.op = "create_assignment", !.company_id = auth.company_id,
                            !.employee_id = payload.employee_id, !.policy_id = policy_id,
                            !.effective_from = payload.effective_from,
                            !.effective_to = payload.effective_to]
        found == check_overlap(auth.company_id, payload.employee_id, policy_id,
                               payload.effective_from, payload.effective_to)
    IN
    /\ CanStart(i)
    /\ IF policy_id \notin Policies \/ auth.company_id \notin Companies
       THEN Reject(i, t, "NotFound", "Policy not found")
       ELSE IF Cardinality(found) > 1
       THEN Reject(i, t, "Internal", "MultipleResultsFound")
       ELSE IF found # {}
       THEN Reject(i, t, "Conflict",
                   "Assignment overlaps with an existing assignment for this employee and policy")
       ELSE /\ tx' = [tx EXCEPT ![i] = [t EXCEPT !.pc = "insert"]]
            /\ UNCHANGED <<dbvars, lock, cfgvars>>

\* create_assignment from session.add to the commit
CreateAssignmentBody(i) ==
    LET me == tx[i]
        assignment == Assignment(Cardinality(assignments) + 1, me.company_id,
                                 me.employee_id, me.policy_id,
                                 me.effective_from, me.effective_to)
    IN
    /\ me.op = "create_assignment" /\ me.pc = "insert"
    /\ Quiet
    /\ IF DuplicateAssignment(assignment)
       THEN Rollback(i, "Conflict", "Duplicate assignment", 0)
       ELSE /\ assignments' = assignments \cup {assignment}
            /\ audit' = audit \cup {AssignmentAudit(assignment, "CREATE")}
            /\ tx' = [tx EXCEPT ![i] =
                        Outcome([me EXCEPT !.assignment_id = assignment.id],
                                "OK", "created", 0)]
            /\ UNCHANGED <<today, versions, requests, ledger, snapshots, lock>>

\* end_date_assignment up to its validations: the row is read without a lock
EndDateAssignmentStart(i, auth, assignment_id, effective_to) ==
    LET t == [IdleTx EXCEPT !.op = "end_date_assignment", !.company_id = auth.company_id,
                            !.user_id = auth.user_id, !.role = auth.role,
                            !.assignment_id = assignment_id,
                            !.effective_to = effective_to]
        found == {a \in assignments :
                    a.id = assignment_id /\ a.company_id = auth.company_id}
        assignment == CHOOSE a \in found : TRUE
    IN
    /\ CanStart(i)
    /\ IF found = {}
       THEN Reject(i, t, "NotFound", "Assignment not found")
       ELSE IF assignment.effective_to # NULL
       THEN Reject(i, t, "BadRequest", "Assignment is already end-dated")
       ELSE IF effective_to < assignment.effective_from
       THEN Reject(i, t, "BadRequest", "effective_to must be >= effective_from")
       ELSE /\ tx' = [tx EXCEPT ![i] =
                        [t EXCEPT !.pc = "update", !.employee_id = assignment.employee_id,
                                  !.policy_id = assignment.policy_id,
                                  !.effective_from = assignment.effective_from]]
            /\ UNCHANGED <<dbvars, lock, cfgvars>>

\* end_date_assignment from the assignment of effective_to to the commit:
\* the UPDATE is by primary key and sets the column whatever it holds now
EndDateAssignmentBody(i) ==
    LET me == tx[i]
        row == CHOOSE a \in assignments : a.id = me.assignment_id
        assignment == [row EXCEPT !.effective_to = me.effective_to]
    IN
    /\ me.op = "end_date_assignment" /\ me.pc = "update"
    /\ Quiet
    /\ assignments' = (assignments \ {row}) \cup {assignment}
    /\ audit' = audit \cup {AssignmentAudit(assignment, "UPDATE")}
    /\ tx' = [tx EXCEPT ![i] = Outcome(me, "OK", "end-dated", 0)]
    /\ UNCHANGED <<today, versions, requests, ledger, snapshots, lock>>

(***************************************************************************)
(* Accrual engines (services/accrual.py).  An engine run is one            *)
(* transaction: the rows are processed one by one, every snapshot lock is  *)
(* kept and everything is committed at the end of the run.                 *)
(***************************************************************************)
\* the (assignment, version) rows of the accrual finders' join
AccrualJoin(target_date, accrual_method) ==
    {[company_id |-> a.company_id, employee_id |-> a.employee_id,
      policy_id |-> a.policy_id, effective_from |-> a.effective_from,
      version_id |-> v.version] :
        <<a, v>> \in {<<a, v>> \in assignments \X VersionRows("p1") :
                        /\ a.policy_id = "p1"
                        /\ ActiveOn(a, target_date) /\ ActiveOn(v, target_date)
                        /\ v.type = "ACCRUAL" /\ v.accrual_method = accrual_method}
                     \cup
                     {<<a, v>> \in assignments \X VersionRows("p2") :
                        /\ a.policy_id = "p2"
                        /\ ActiveOn(a, target_date) /\ ActiveOn(v, target_date)
                        /\ v.type = "ACCRUAL" /\ v.accrual_method = accrual_method}}

find_active_time_assignments(target_date) == AccrualJoin(target_date, "TIME")

find_hours_worked_assignments(company_id, employee_id, target_date) ==
    {r \in AccrualJoin(target_date, "HOURS_WORKED") :
        r.company_id = company_id /\ r.employee_id = employee_id}

\* one more row counted, with the given outcome, and on to the next row
Counted(me, field, keep) ==
    [me EXCEPT !.pc = "loop", !.rows = keep, !.row = NoRow, !.phase = "",
               !.amount_minutes = 0, !.carried_minutes = 0,
               !.skipped = IF field = "skipped" THEN @ + 1 ELSE @,
               !.errors = IF field = "errors" THEN @ + 1 ELSE @]

AccrualStart(i, target_date) ==
    /\ CanStart(i)
    /\ tx' = [tx EXCEPT ![i] =
                [IdleTx EXCEPT !.op = "accrual", !.pc = "loop",
                               !.target_date = target_date,
                               !.rows = find_active_time_assignments(target_date)]]
    /\ UNCHANGED <<dbvars, lock, cfgvars>>

\* the loop body of run_time_based_accruals up to the snapshot lock
AccrualRow(i) ==
    LET me == tx[i] IN
    /\ Quiet
    /\ me.pc = "loop" /\ me.op = "accrual"
    /\ \E info \in me.rows :
        LET keep == me.rows \ {info}
            seen == [me EXCEPT !.processed = @ + 1]
            version == get_version_effective_on(info.policy_id, me.target_date)
            settings == (CHOOSE v \in version : TRUE).settings
            hire_date == IF info.employee_id \in DOMAIN EmployeeInfo
                         THEN EmployeeInfo[info.employee_id].hire_date ELSE NULL
            amount == compute_accrual_amount(settings, me.target_date,
                                             info.effective_from, hire_date)
        IN
        tx' = [tx EXCEPT ![i] =
            IF me.failed THEN Counted(seen, "errors", keep)
            ELSE IF version = {} THEN Counted(seen, "skipped", keep)
            ELSE IF settings.accrual_method # "TIME" THEN Counted(seen, "skipped", keep)
            ELSE IF ~is_accrual_date(settings.accrual_frequency,
                                     settings.accrual_timing, me.target_date)
            THEN Counted(seen, "skipped", keep)
            ELSE IF amount <= 0 THEN Counted(seen, "skipped", keep)
            ELSE [seen EXCEPT !.pc = "lock", !.rows = keep, !.row = info,
                              !.amount_minutes = amount]]
    /\ UNCHANGED <<dbvars, lock, cfgvars>>

PayrollStart(i, payload) ==
    /\ CanStart(i)
    /\ tx' = [tx EXCEPT ![i] =
                [IdleTx EXCEPT !.op = "payroll", !.pc = "loop",
                               !.company_id = payload.company_id,
                               !.target_date = payload.period_end,
                               !.payroll_run_id = payload.payroll_run_id,
                               !.worked_minutes = payload.worked_minutes,
                               !.rows = find_hours_worked_assignments(
                                            payload.company_id, payload.employee_id,
                                            payload.period_end)]]
    /\ UNCHANGED <<dbvars, lock, cfgvars>>

\* the loop body of process_payroll_event up to the snapshot lock
PayrollRow(i) ==
    LET me == tx[i] IN
    /\ Quiet
    /\ me.pc = "loop" /\ me.op = "payroll"
    /\ \E info \in me.rows :
        LET keep == me.rows \ {info}
            seen == [me EXCEPT !.processed = @ + 1]
            version == get_version_effective_on(info.policy_id, me.target_date)
            settings == (CHOOSE v \in version : TRUE).settings
            amount == compute_hours_worked_accrual(settings, me.worked_minutes)
        IN
        tx' = [tx EXCEPT ![i] =
            IF me.failed THEN Counted(seen, "errors", keep)
            ELSE IF version = {} THEN Counted(seen, "skipped", keep)
            ELSE IF settings.accrual_method # "HOURS_WORKED"
            THEN Counted(seen, "skipped", keep)
            ELSE IF amount <= 0 THEN Counted(seen, "skipped", keep)
            ELSE [seen EXCEPT !.pc = "lock", !.rows = keep, !.row = info,
                              !.amount_minutes = amount]]
    /\ UNCHANGED <<dbvars, lock, cfgvars>>

\* the rows a transaction sees: committed ones and its own pending ones
Visible(i) == ledger \cup tx[i].wledger

\* an INSERT waits while another transaction holds the same key uncommitted
Unblocked(i, entries) ==
    \A j \in Txns \ {i} : \A x \in entries : ~Duplicate(tx[j].wledger, x)

AuditRow(x) ==
    [entity_type |-> "ACCRUAL", entity_id |-> x.source_id,
     entry_type |-> x.entry_type, action |-> "CREATE"]

\* _post_accrual_entry once the snapshot is locked
AccrualPost(i) ==
    LET me == tx[i]
        info == me.row
        t == TripleOf(info)
        snapshot == me.wsnap[t]
        version == get_version_effective_on(info.policy_id, me.target_date)
        bank_cap_minutes ==
            IF version = {} THEN NULL
            ELSE (CHOOSE v \in version : TRUE).settings.bank_cap_minutes
        capped_amount ==
            apply_bank_cap(snapshot.accrued_minutes, me.amount_minutes, bank_cap_minutes)
        entry ==
            IF me.op = "accrual"
            THEN TimeOffLedgerEntry(info.company_id, info.employee_id, info.policy_id,
                     info.version_id, "ACCRUAL", capped_amount, "SYSTEM",
                     build_time_accrual_source_id(info.policy_id, info.employee_id,
                                                  me.target_date), NULL)
            ELSE TimeOffLedgerEntry(info.company_id, info.employee_id, info.policy_id,
                     info.version_id, "ACCRUAL", capped_amount, "PAYROLL",
                     build_payroll_source_id(me.payroll_run_id, info.employee_id,
                                             info.policy_id), NULL)
    IN
    /\ Quiet
    /\ me.pc = "body" /\ me.op \in {"accrual", "payroll"}
    /\ capped_amount > 0 => Unblocked(i, {entry})
    /\ tx' = [tx EXCEPT ![i] =
            IF capped_amount <= 0 THEN Counted(me, "skipped", me.rows)
            ELSE IF Duplicate(Visible(i), entry) THEN Counted(me, "skipped", me.rows)
            ELSE [Counted(me, "", me.rows) EXCEPT
                    !.wledger = @ \cup {entry},
                    !.wsnap[t] = Recompute([snapshot EXCEPT
                                    !.accrued_minutes = @ + capped_amount]),
                    !.waudit = @ \cup {AuditRow(entry)},
                    !.posted = @ + 1]]
    /\ UNCHANGED <<dbvars, lock, cfgvars>>

(***************************************************************************)
(* Carryover and expiration engines (services/carryover.py).               *)
(***************************************************************************)
\* the DISTINCT (assignment, version) rows of the join: every version of an
\* assigned accrual policy, whatever its effective dates
find_active_accrual_assignments(target_date) ==
    {[company_id |-> a.company_id, employee_id |-> a.employee_id,
      policy_id |-> a.policy_id, effective_from |-> 0, version_id |-> v.version] :
        <<a, v>> \in {<<a, v>> \in assignments \X VersionRows("p1") :
                        /\ a.policy_id = "p1" /\ ActiveOn(a, target_date)
                        /\ v.type = "ACCRUAL"
                        /\ v.accrual_method \in {"TIME", "HOURS_WORKED"}}
                     \cup
                     {<<a, v>> \in assignments \X VersionRows("p2") :
                        /\ a.policy_id = "p2" /\ ActiveOn(a, target_date)
                        /\ v.type = "ACCRUAL"
                        /\ v.accrual_method \in {"TIME", "HOURS_WORKED"}}}

\* mutant: the carryover settings read without their cap
get_carryover_settings_uncapped(settings) ==
    IF settings.accrual_method \in {"TIME", "HOURS_WORKED"}
    THEN [settings.carryover EXCEPT !.cap_minutes = NULL] ELSE CarryoverOff

get_carryover_settings(settings) ==
    IF settings.accrual_method \in {"TIME", "HOURS_WORKED"}
    THEN settings.carryover ELSE CarryoverOff

get_expiration_settings(settings) ==
    IF settings.accrual_method \in {"TIME", "HOURS_WORKED"}
    THEN settings.expiration ELSE ExpirationOff

\* mutant: run_carryover_processing without its Jan 1 check
CarryoverStartAnyDate(i, target_date) ==
    /\ CanStart(i)
    /\ tx' = [tx EXCEPT ![i] =
                [IdleTx EXCEPT !.op = "carryover", !.pc = "loop",
                               !.target_date = target_date,
                               !.rows = find_active_accrual_assignments(target_date)]]
    /\ UNCHANGED <<dbvars, lock, cfgvars>>

CarryoverStart(i, target_date) ==
    LET t == [IdleTx EXCEPT !.op = "carryover", !.target_date = target_date] IN
    /\ CanStart(i)
    /\ IF MonthOf(target_date) # 1 \/ DayOf(target_date) # 1
       THEN Reject(i, t, "OK", "Carryover skipped: target_date is not Jan 1")
       ELSE /\ tx' = [tx EXCEPT ![i] =
                    [t EXCEPT !.pc = "loop",
                              !.rows = find_active_accrual_assignments(target_date)]]
            /\ UNCHANGED <<dbvars, lock, cfgvars>>

\* the loop body of run_carryover_processing up to the snapshot lock
CarryoverRow(i) ==
    LET me == tx[i] IN
    /\ Quiet
    /\ me.pc = "loop" /\ me.op = "carryover"
    /\ \E row \in me.rows :
        LET keep == me.rows \ {row}
            settings == versions[row.policy_id][row.version_id].settings
            carryover == get_carryover_settings(settings)
        IN
        tx' = [tx EXCEPT ![i] =
            IF ~carryover.enabled THEN Counted(me, "skipped", keep)
            ELSE IF me.failed THEN Counted(me, "errors", keep)
            ELSE [me EXCEPT !.pc = "lock", !.rows = keep, !.row = row]]
    /\ UNCHANGED <<dbvars, lock, cfgvars>>

CarryoverSourceId(policy_id, employee_id, year) ==
    <<"carryover", policy_id, employee_id, year>>
CarryoverMarkerSourceId(policy_id, employee_id, year) ==
    <<"carryover_marker", policy_id, employee_id, year>>
CalendarExpirationSourceId(policy_id, employee_id, target_date) ==
    <<"expiration", policy_id, employee_id, target_date>>
CarryoverExpirySourceId(policy_id, employee_id, year) ==
    <<"carryover_expiry", policy_id, employee_id, year>>

\* the rest of the loop body of run_carryover_processing
CarryoverPost(i) ==
    LET me == tx[i]
        row == me.row
        t == TripleOf(row)
        snapshot == me.wsnap[t]
        year == YearOf(me.target_date) - 1
        carryover == get_carryover_settings(
                        versions[row.policy_id][row.version_id].settings)
        available == snapshot.accrued_minutes - snapshot.used_minutes
                        - snapshot.held_minutes
        cap == carryover.cap_minutes
        carry_amount == IF cap # NULL THEN Min(available, cap) ELSE available
        expire_amount == available - carry_amount
        exp_entry == TimeOffLedgerEntry(row.company_id, row.employee_id, row.policy_id,
                        row.version_id, "EXPIRATION", 0 - expire_amount, "SYSTEM",
                        CarryoverSourceId(row.policy_id, row.employee_id, year), NULL)
        marker_entry == [TimeOffLedgerEntry(row.company_id, row.employee_id,
                        row.policy_id, row.version_id, "CARRYOVER", 0, "SYSTEM",
                        CarryoverMarkerSourceId(row.policy_id, row.employee_id, year),
                        carry_amount) EXCEPT !.expired_minutes = expire_amount]
        exp_posted == expire_amount > 0 /\ ~Duplicate(Visible(i), exp_entry)
        marker_posted == ~Duplicate(Visible(i), marker_entry)
    IN
    /\ Quiet
    /\ me.pc = "body" /\ me.op = "carryover"
    /\ available > 0 =>
          Unblocked(i, {marker_entry} \cup
                       (IF expire_amount > 0 THEN {exp_entry} ELSE {}))
    /\ tx' = [tx EXCEPT ![i] =
            IF available <= 0 THEN Counted(me, "skipped", me.rows)
            ELSE [Counted(me, IF marker_posted THEN "" ELSE "skipped", me.rows) EXCEPT
                    !.wledger = @ \cup (IF exp_posted THEN {exp_entry} ELSE {})
                                  \cup (IF marker_posted THEN {marker_entry} ELSE {}),
                    !.wsnap[t] = IF exp_posted
                                 THEN Recompute([snapshot EXCEPT
                                        !.accrued_minutes = @ - expire_amount])
                                 ELSE snapshot,
                    !.waudit = @ \cup (IF exp_posted THEN {AuditRow(exp_entry)} ELSE {})
                                 \cup (IF marker_posted THEN {AuditRow(marker_entry)}
                                       ELSE {}),
                    !.expired = IF exp_posted THEN @ + 1 ELSE @,
                    !.posted = IF marker_posted THEN @ + 1 ELSE @]]
    /\ UNCHANGED <<dbvars, lock, cfgvars>>

ExpirationStart(i, target_date) ==
    /\ CanStart(i)
    /\ tx' = [tx EXCEPT ![i] =
                [IdleTx EXCEPT !.op = "expiration", !.pc = "loop",
                               !.target_date = target_date,
                               !.rows = find_active_accrual_assignments(target_date)]]
    /\ UNCHANGED <<dbvars, lock, cfgvars>>

\* calendar-date expiration is due for these settings on target_date
CalendarDue(settings, target_date) ==
    LET expiration == get_expiration_settings(settings) IN
    /\ expiration.enabled
    /\ expiration.expires_on_month # NULL
    /\ expiration.expires_on_day # NULL
    /\ MonthOf(target_date) = expiration.expires_on_month
    /\ DayOf(target_date) = expiration.expires_on_day

\* carryover expiration is due for these settings on target_date
CarryoverDue(settings, target_date) ==
    LET carryover == get_carryover_settings(settings) IN
    /\ carryover.enabled
    /\ carryover.expires_after_days # NULL
    /\ target_date = Date(YearOf(target_date), 1, 1) + carryover.expires_after_days

\* carried_minutes of the CARRYOVER marker of the year, 0 when there is none
MarkerCarried(L, policy_id, employee_id, carryover_year) ==
    LET markers == {x \in L :
                      /\ x.source_id = CarryoverMarkerSourceId(policy_id, employee_id,
                                                               carryover_year)
                      /\ x.entry_type = "CARRYOVER"}
    IN  IF markers = {} THEN 0 ELSE (CHOOSE x \in markers : TRUE).carried_minutes

\* the loop body of run_expiration_processing up to the first snapshot lock
ExpirationRow(i) ==
    LET me == tx[i] IN
    /\ Quiet
    /\ me.pc = "loop" /\ me.op = "expiration"
    /\ \E row \in me.rows :
        LET keep == me.rows \ {row}
            settings == versions[row.policy_id][row.version_id].settings
            carried == MarkerCarried(Visible(i), row.policy_id, row.employee_id,
                                     YearOf(me.target_date) - 1)
        IN
        tx' = [tx EXCEPT ![i] =
            IF CalendarDue(settings, me.target_date)
            THEN IF me.failed THEN Counted(me, "errors", keep)
                 ELSE [me EXCEPT !.pc = "lock", !.rows = keep, !.row = row,
                                 !.phase = "calendar"]
            ELSE IF CarryoverDue(settings, me.target_date)
            THEN IF me.failed THEN Counted(me, "errors", keep)
                 ELSE IF carried <= 0 THEN Counted(me, "skipped", keep)
                 ELSE [me EXCEPT !.pc = "lock", !.rows = keep, !.row = row,
                                 !.phase = "carryover", !.carried_minutes = carried]
            ELSE Counted(me, "", keep)]
    /\ UNCHANGED <<dbvars, lock, cfgvars>>

\* one expiration posted (or skipped) against the transaction's pending state
Expire(me, t, entry, amount) ==
    IF amount <= 0 \/ Duplicate(ledger \cup me.wledger, entry)
    THEN [me EXCEPT !.skipped = @ + 1]
    ELSE [me EXCEPT !.wledger = @ \cup {entry},
                    !.wsnap[t] = Recompute([me.wsnap[t] EXCEPT
                                    !.accrued_minutes = @ - amount]),
                    !.waudit = @ \cup {AuditRow(entry)},
                    !.expired = @ + 1]

Available(s) == s.accrued_minutes - s.used_minutes - s.held_minutes

\* mutant: calendar expiration that also expires the minutes on hold
process_calendar_expiration_held(me) ==
    LET row == me.row
        t == TripleOf(row)
        amount == me.wsnap[t].accrued_minutes - me.wsnap[t].used_minutes
    IN  Expire(me, t,
               TimeOffLedgerEntry(row.company_id, row.employee_id, row.policy_id,
                   row.version_id, "EXPIRATION", 0 - amount, "SYSTEM",
                   CalendarExpirationSourceId(row.policy_id, row.employee_id,
                                              me.target_date), NULL),
               amount)

\* _process_calendar_expiration once the snapshot is locked
process_calendar_expiration(me) ==
    LET row == me.row
        t == TripleOf(row)
        available == Available(me.wsnap[t])
    IN  Expire(me, t,
               TimeOffLedgerEntry(row.company_id, row.employee_id, row.policy_id,
                   row.version_id, "EXPIRATION", 0 - available, "SYSTEM",
                   CalendarExpirationSourceId(row.policy_id, row.employee_id,
                                              me.target_date), NULL),
               available)

\* mutant: the whole carried amount expires, whatever is still available
process_carryover_expiration_all(me, carried_minutes) ==
    LET row == me.row
        t == TripleOf(row)
    IN  Expire(me, t,
               TimeOffLedgerEntry(row.company_id, row.employee_id, row.policy_id,
                   row.version_id, "EXPIRATION", 0 - carried_minutes, "SYSTEM",
                   CarryoverExpirySourceId(row.policy_id, row.employee_id,
                                           YearOf(me.target_date) - 1), NULL),
               carried_minutes)

\* _process_carryover_expiration once the snapshot is locked
process_carryover_expiration(me, carried_minutes) ==
    LET row == me.row
        t == TripleOf(row)
        expire_amount == Min(carried_minutes, Max(Available(me.wsnap[t]), 0))
    IN  Expire(me, t,
               TimeOffLedgerEntry(row.company_id, row.employee_id, row.policy_id,
                   row.version_id, "EXPIRATION", 0 - expire_amount, "SYSTEM",
                   CarryoverExpirySourceId(row.policy_id, row.employee_id,
                                           YearOf(me.target_date) - 1), NULL),
               expire_amount)

\* the rest of the loop body of run_expiration_processing
ExpirationPost(i) ==
    LET me == tx[i]
        row == me.row
        settings == versions[row.policy_id][row.version_id].settings
        after_calendar == process_calendar_expiration(me)
        carried == MarkerCarried(ledger \cup after_calendar.wledger, row.policy_id,
                                 row.employee_id, YearOf(me.target_date) - 1)
        result ==
            IF me.phase = "carryover"
            THEN process_carryover_expiration(me, me.carried_minutes)
            ELSE IF ~CarryoverDue(settings, me.target_date) THEN after_calendar
            ELSE IF carried <= 0 THEN [after_calendar EXCEPT !.skipped = @ + 1]
            ELSE process_carryover_expiration(after_calendar, carried)
    IN
    /\ Quiet
    /\ me.pc = "body" /\ me.op = "expiration"
    /\ Unblocked(i, result.wledger \ me.wledger)
    /\ tx' = [tx EXCEPT ![i] =
                [Counted(me, "", me.rows) EXCEPT
                    !.wledger = result.wledger, !.wsnap = result.wsnap,
                    !.waudit = result.waudit, !.expired = result.expired,
                    !.skipped = result.skipped]]
    /\ UNCHANGED <<dbvars, lock, cfgvars>>

(***************************************************************************)
(* The audit write raising (write_audit_log or model_to_audit_dict, called *)
(* after the ledger entry is flushed and the snapshot is updated).  In a   *)
(* request handler the exception propagates and the session is rolled      *)
(* back; in an engine the per-row handler counts an error and the run goes *)
(* on with the entry and the snapshot change still pending in its session. *)
(***************************************************************************)
SubmitAuditFail(i) ==
    LET me == tx[i]
        snapshot == me.wsnap[TripleOf(me)]
        settings == versions[me.policy_id][me.version_id].settings
    IN
    /\ Quiet
    /\ me.pc = "body" /\ me.op = "submit"
    /\ SubmitGate(settings, snapshot.available_minutes, me.requested_minutes) = "ok"
    /\ ~(me.idempotency_key # ""
         /\ KeyHolders(me.company_id, me.employee_id, me.idempotency_key) # {})
    /\ Rollback(i, "Internal", "AuditError", 0)

AdjustAuditFail(i) ==
    LET me == tx[i]
        snapshot == me.wsnap[TripleOf(me)]
        settings == versions[me.policy_id][me.version_id].settings
    IN
    /\ Quiet
    /\ me.pc = "body" /\ me.op = "adjust"
    /\ AdjustGate(settings, snapshot.available_minutes, me.amount_minutes) = "ok"
    /\ Rollback(i, "Internal", "AuditError", 0)

\* _post_accrual_entry raising at its audit write
AccrualAuditFail(i) ==
    LET me == tx[i]
        info == me.row
        t == TripleOf(info)
        snapshot == me.wsnap[t]
        version == get_version_effective_on(info.policy_id, me.target_date)
        bank_cap_minutes ==
            IF version = {} THEN NULL
            ELSE (CHOOSE v \in version : TRUE).settings.bank_cap_minutes
        capped_amount ==
            apply_bank_cap(snapshot.accrued_minutes, me.amount_minutes, bank_cap_minutes)
        entry ==
            IF me.op = "accrual"
            THEN TimeOffLedgerEntry(info.company_id, info.employee_id, info.policy_id,
                     info.version_id, "ACCRUAL", capped_amount, "SYSTEM",
                     build_time_accrual_source_id(info.policy_id, info.employee_id,
                                                  me.target_date), NULL)
            ELSE TimeOffLedgerEntry(info.company_id, info.employee_id, info.policy_id,
                     info.version_id, "ACCRUAL", capped_amount, "PAYROLL",
                     build_payroll_source_id(me.payroll_run_id, info.employee_id,
                                             info.policy_id), NULL)
    IN
    /\ Quiet
    /\ me.pc = "body" /\ me.op \in {"accrual", "payroll"}
    /\ capped_amount > 0
    /\ Unblocked(i, {entry})
    /\ ~Duplicate(Visible(i), entry)
    /\ tx' = [tx EXCEPT ![i] =
            [Counted(me, "errors", me.rows) EXCEPT
                !.wledger = @ \cup {entry},
                !.wsnap[t] = Recompute([snapshot EXCEPT
                                !.accrued_minutes = @ + capped_amount])]]
    /\ UNCHANGED <<dbvars, lock, cfgvars>>

\* run_carryover_processing raising at the audit write of its EXPIRATION
\* entry (at = "expiration") or of its CARRYOVER marker (at = "marker")
CarryoverAuditFail(i, at) ==
    LET me == tx[i]
        row == me.row
        t == TripleOf(row)
        snapshot == me.wsnap[t]
        year == YearOf(me.target_date) - 1
        carryover == get_carryover_settings(
                        versions[row.policy_id][row.version_id].settings)
        available == snapshot.accrued_minutes - snapshot.used_minutes
                        - snapshot.held_minutes
        cap == carryover.cap_minutes
        carry_amount == IF cap # NULL THEN Min(available, cap) ELSE available
        expire_amount == available - carry_amount
        exp_entry == TimeOffLedgerEntry(row.company_id, row.employee_id, row.policy_id,
                        row.version_id, "EXPIRATION", 0 - expire_amount, "SYSTEM",
                        CarryoverSourceId(row.policy_id, row.employee_id, year), NULL)
        marker_entry == [TimeOffLedgerEntry(row.company_id, row.employee_id,
                        row.policy_id, row.version_id, "CARRYOVER", 0, "SYSTEM",
                        CarryoverMarkerSourceId(row.policy_id, row.employee_id, year),
                        carry_amount) EXCEPT !.expired_minutes = expire_amount]
        exp_posted == expire_amount > 0 /\ ~Duplicate(Visible(i), exp_entry)
        marker_posted == ~Duplicate(Visible(i), marker_entry)
        expired == [Counted(me, "errors", me.rows) EXCEPT
                        !.wledger = @ \cup (IF exp_posted THEN {exp_entry} ELSE {}),
                        !.wsnap[t] = IF exp_posted
                                     THEN Recompute([snapshot EXCEPT
                                            !.accrued_minutes = @ - expire_amount])
                                     ELSE snapshot]
    IN
    /\ Quiet
    /\ me.pc = "body" /\ me.op = "carryover"
    /\ available > 0
    /\ Unblocked(i, {marker_entry} \cup
                    (IF expire_amount > 0 THEN {exp_entry} ELSE {}))
    /\ IF at = "expiration"
       THEN /\ exp_posted
            /\ tx' = [tx EXCEPT ![i] = expired]
       ELSE /\ marker_posted
            /\ tx' = [tx EXCEPT ![i] =
                    [expired EXCEPT
                        !.wledger = @ \cup {marker_entry},
                        !.waudit = @ \cup (IF exp_posted THEN {AuditRow(exp_entry)}
                                           ELSE {}),
                        !.expired = IF exp_posted THEN @ + 1 ELSE @]]
    /\ UNCHANGED <<dbvars, lock, cfgvars>>

\* run_expiration_processing raising at the audit write of the first
\* EXPIRATION entry the row posts
ExpirationAuditFail(i) ==
    LET me == tx[i]
        result == IF me.phase = "carryover"
                  THEN process_carryover_expiration(me, me.carried_minutes)
                  ELSE process_calendar_expiration(me)
    IN
    /\ Quiet
    /\ me.pc = "body" /\ me.op = "expiration"
    /\ result.wledger # me.wledger
    /\ Unblocked(i, result.wledger \ me.wledger)
    /\ tx' = [tx EXCEPT ![i] =
                [Counted(me, "errors", me.rows) EXCEPT
                    !.wledger = result.wledger, !.wsnap = result.wsnap]]
    /\ UNCHANGED <<dbvars, lock, cfgvars>>

\* session.commit() at the end of a run.  A session whose flush failed
\* refuses every later statement, the commit included
EngineCommit(i) ==
    LET me == tx[i] IN
    /\ Quiet
    /\ me.pc = "loop" /\ me.rows = {}
    /\ IF me.failed
       THEN Rollback(i, "Internal", "PendingRollbackError", 0)
       ELSE /\ ledger' = ledger \cup me.wledger
            /\ snapshots' = [t \in Triples |->
                                IF lock[t] = i THEN me.wsnap[t] ELSE snapshots[t]]
            /\ audit' = audit \cup me.waudit
            /\ lock' = ReleaseLocks(i)
            /\ tx' = [tx EXCEPT ![i] = Outcome(me, "OK", "committed", 0)]
            /\ UNCHANGED <<requests, cfgvars>>

\* the response has been sent; the session is closed
Return(i) ==
    /\ tx[i].pc = "done"
    /\ tx' = [tx EXCEPT ![i] = IdleTx]
    /\ UNCHANGED <<dbvars, lock, cfgvars>>

(***************************************************************************)
(* Bounds: the request table holds at most max rows (a submit that cannot  *)
(* insert a row, because it is rejected before or because its key is       *)
(* taken, is always allowed) and the ledger at most max adjustments.       *)
(***************************************************************************)
RequestBudget(auth, payload, max) ==
    \/ Len(requests) + InFlight("submit") < max
    \/ check_request_overlap(auth.company_id, payload.employee_id, payload.policy_id,
                             payload.start_at, payload.end_at) # {}
    \/ calculate_requested_minutes(auth.company_id, payload.employee_id,
                                   payload.start_at, payload.end_at) <= 0
    \/ /\ payload.idempotency_key # ""
       /\ KeyHolders(auth.company_id, payload.employee_id, payload.idempotency_key) # {}

AdjustBudget(max) == Cardinality(Adjustments(ledger)) + InFlight("adjust") < max

\* the inputs of the specification that mixes every operation
MixedSubmitPayloads == {q \in SubmitPayloads : q.policy_id = "p1"}
MixedAdjustmentPayloads == {q \in AdjustmentPayloads : q.policy_id = "p1"}
MixedPayrollPayloads == {q \in PayrollPayloads : q.worked_minutes = 5760}

(***************************************************************************)
(* Every operation, two concurrent sessions.  Engine runs follow one       *)
(* another, as in the worker loop (worker.py), and run concurrently with   *)
(* the request workflow and adjustments; EngineSpec lets two runs race.    *)
(***************************************************************************)
NoEngineInFlight == \A j \in Txns : ~IsEngine(tx[j].op)

Next ==
    \/ \E i \in Txns, payload \in MixedSubmitPayloads :
          SubmitStart(i, Owner, payload) /\ RequestBudget(Owner, payload, MaxMixedRequests)
    \/ \E i \in Txns : SnapLock(i)
    \/ \E i \in Txns : SnapCreateOk(i)
    \/ \E i \in Txns : SnapCreateFail(i)
    \/ \E i \in Txns : SubmitBody(i)
    \/ \E i \in Txns, rid \in 1..MaxMixedRequests : ApproveStart(i, Admin, rid)
    \/ \E i \in Txns, rid \in 1..MaxMixedRequests : DenyStart(i, Admin, rid)
    \/ \E i \in Txns, rid \in 1..MaxMixedRequests : CancelStart(i, Owner, rid)
    \/ \E i \in Txns : ApproveBody(i)
    \/ \E i \in Txns : ReleaseHoldBody(i)
    \/ \E i \in Txns, payload \in MixedAdjustmentPayloads :
          AdjustStart(i, Admin, payload) /\ AdjustBudget(MaxAdjustments)
    \/ \E i \in Txns : AdjustBody(i)
    \/ \E i \in Txns, d \in TargetDates : AccrualStart(i, d) /\ NoEngineInFlight
    \/ \E i \in Txns : AccrualRow(i)
    \/ \E i \in Txns, payload \in MixedPayrollPayloads :
          PayrollStart(i, payload) /\ NoEngineInFlight
    \/ \E i \in Txns : PayrollRow(i)
    \/ \E i \in Txns : AccrualPost(i)
    \/ \E i \in Txns, d \in TargetDates : CarryoverStart(i, d) /\ NoEngineInFlight
    \/ \E i \in Txns : CarryoverRow(i)
    \/ \E i \in Txns : CarryoverPost(i)
    \/ \E i \in Txns, d \in TargetDates : ExpirationStart(i, d) /\ NoEngineInFlight
    \/ \E i \in Txns : ExpirationRow(i)
    \/ \E i \in Txns : ExpirationPost(i)
    \/ \E i \in Txns : EngineCommit(i)
    \/ \E i \in Txns : Return(i)

Spec == Init /\ [][Next]_vars

(***************************************************************************)
(* The request workflow and adjustments alone, with every payload.         *)
(***************************************************************************)
RequestNext ==
    \/ \E i \in Txns, payload \in SubmitPayloads :
          SubmitStart(i, Owner, payload) /\ RequestBudget(Owner, payload, MaxRequests)
    \/ \E i \in Txns : SnapLock(i)
    \/ \E i \in Txns : SnapCreateOk(i)
    \/ \E i \in Txns : SnapCreateFail(i)
    \/ \E i \in Txns : SubmitBody(i)
    \/ \E i \in Txns, rid \in 1..MaxRequests : ApproveStart(i, Admin, rid)
    \/ \E i \in Txns, rid \in 1..MaxRequests : DenyStart(i, Admin, rid)
    \/ \E i \in Txns, auth \in Actors, rid \in 1..MaxRequests : CancelStart(i, auth, rid)
    \/ \E i \in Txns : ApproveBody(i)
    \/ \E i \in Txns : ReleaseHoldBody(i)
    \/ \E i \in Txns, payload \in AdjustmentPayloads :
          AdjustStart(i, Admin, payload) /\ AdjustBudget(MaxAdjustments)
    \/ \E i \in Txns : AdjustBody(i)
    \/ \E i \in Txns : Return(i)

RequestSpec == Init /\ [][RequestNext]_vars

(***************************************************************************)
(* The engines and adjustments alone.                                      *)
(***************************************************************************)
EngineNext ==
    \/ \E i \in Txns : SnapLock(i)
    \/ \E i \in Txns : SnapCreateOk(i)
    \/ \E i \in Txns : SnapCreateFail(i)
    \/ \E i \in Txns, payload \in AdjustmentPayloads :
          AdjustStart(i, Admin, payload) /\ AdjustBudget(MaxAdjustments)
    \/ \E i \in Txns : AdjustBody(i)
    \/ \E i \in Txns, d \in TargetDates : AccrualStart(i, d)
    \/ \E i \in Txns : AccrualRow(i)
    \/ \E i \in Txns, payload \in PayrollPayloads : PayrollStart(i, payload)
    \/ \E i \in Txns : PayrollRow(i)
    \/ \E i \in Txns : AccrualPost(i)
    \/ \E i \in Txns, d \in TargetDates : CarryoverStart(i, d)
    \/ \E i \in Txns : CarryoverRow(i)
    \/ \E i \in Txns : CarryoverPost(i)
    \/ \E i \in Txns, d \in TargetDates : ExpirationStart(i, d)
    \/ \E i \in Txns : ExpirationRow(i)
    \/ \E i \in Txns : ExpirationPost(i)
    \/ \E i \in Txns : EngineCommit(i)
    \/ \E i \in Txns : Return(i)

EngineSpec == Init /\ [][EngineNext]_vars

(***************************************************************************)
(* Submit, adjustments and the engines (one run at a time), each with its  *)
(* audit write succeeding or raising.                                      *)
(***************************************************************************)
AuditFaultSites == {"expiration", "marker"}

AuditNext ==
    \/ \E i \in Txns, payload \in MixedSubmitPayloads :
          SubmitStart(i, Owner, payload) /\ RequestBudget(Owner, payload, MaxMixedRequests)
    \/ \E i \in Txns : SnapLock(i)
    \/ \E i \in Txns : SnapCreateOk(i)
    \/ \E i \in Txns : SnapCreateFail(i)
    \/ \E i \in Txns : SubmitBody(i)
    \/ \E i \in Txns : SubmitAuditFail(i)
    \/ \E i \in Txns, payload \in MixedAdjustmentPayloads :
          AdjustStart(i, Admin, payload) /\ AdjustBudget(MaxAdjustments)
    \/ \E i \in Txns : AdjustBody(i)
    \/ \E i \in Txns : AdjustAuditFail(i)
    \/ \E i \in Txns, d \in TargetDates : AccrualStart(i, d) /\ NoEngineInFlight
    \/ \E i \in Txns : AccrualRow(i)
    \/ \E i \in Txns : AccrualPost(i)
    \/ \E i \in Txns : AccrualAuditFail(i)
    \/ \E i \in Txns, d \in TargetDates : CarryoverStart(i, d) /\ NoEngineInFlight
    \/ \E i \in Txns : CarryoverRow(i)
    \/ \E i \in Txns : CarryoverPost(i)
    \/ \E i \in Txns, at \in AuditFaultSites : CarryoverAuditFail(i, at)
    \/ \E i \in Txns, d \in TargetDates : ExpirationStart(i, d) /\ NoEngineInFlight
    \/ \E i \in Txns : ExpirationRow(i)
    \/ \E i \in Txns : ExpirationPost(i)
    \/ \E i \in Txns : ExpirationAuditFail(i)
    \/ \E i \in Txns : EngineCommit(i)
    \/ \E i \in Txns : Return(i)

AuditSpec == Init /\ [][AuditNext]_vars

(***************************************************************************)
(* Submit and adjustments on policy p2 while its settings are updated:     *)
(* the negative limit is withdrawn or the policy becomes unlimited.        *)
(***************************************************************************)
MaxVersions == 2

\* UpdatePolicyRequest values
UpdatePolicyPayloads ==
    {[effective_from |-> Date(2026, 1, 1),
      settings |-> [HoursWorkedAccrualSettings EXCEPT
                        !.allow_negative = FALSE, !.negative_limit_minutes = NULL]],
     [effective_from |-> Date(2026, 1, 1), settings |-> UnlimitedSettings],
     [effective_from |-> Date(2024, 1, 1), settings |-> UnlimitedSettings]}

VersionBudget(policy_id, payload) ==
    \/ Len(versions[policy_id]) < MaxVersions
    \/ payload.effective_from < Date(2025, 1, 1)

PolicySubmitPayloads ==
    {q \in SubmitPayloads : q.policy_id = "p2" /\ q.start_at = 540}
PolicyAdjustmentPayloads ==
    {[employee_id |-> "e1", policy_id |-> "p2", amount_minutes |-> 120],
     [employee_id |-> "e1", policy_id |-> "p2", amount_minutes |-> 0 - 120],
     [employee_id |-> "e1", policy_id |-> "p2", amount_minutes |-> 0 - 240]}

PolicyNext ==
    \/ \E i \in Txns, payload \in PolicySubmitPayloads :
          SubmitStart(i, Owner, payload) /\ RequestBudget(Owner, payload, MaxRequests)
    \/ \E i \in Txns : SnapLock(i)
    \/ \E i \in Txns : SnapCreateOk(i)
    \/ \E i \in Txns : SnapCreateFail(i)
    \/ \E i \in Txns : SubmitBody(i)
    \/ \E i \in Txns, payload \in PolicyAdjustmentPayloads :
          AdjustStart(i, Admin, payload) /\ AdjustBudget(MaxAdjustments)
    \/ \E i \in Txns : AdjustBody(i)
    \/ \E i \in Txns, payload \in UpdatePolicyPayloads :
          UpdatePolicyStart(i, Admin, "p2", payload) /\ VersionBudget("p2", payload)
    \/ \E i \in Txns : UpdatePolicyBody(i)
    \/ \E i \in Txns : Return(i)

PolicySpec == Init /\ [][PolicyNext]_vars

(***************************************************************************)
(* Assignments of employee e1 to policy p2: creates and end-datings,       *)
(* racing on two sessions.                                                 *)
(***************************************************************************)
MaxAssignments == 4

AssignmentDates ==
    {Date(2024, 1, 1), Date(2024, 7, 1), Date(2025, 1, 1), Date(2026, 1, 1)}

\* CreateAssignmentRequest values (effective_to >= effective_from)
CreateAssignmentPayloads ==
    {q \in [employee_id : {"e1"}, effective_from : AssignmentDates,
            effective_to : AssignmentDates \cup {NULL}] :
        q.effective_to = NULL \/ q.effective_to >= q.effective_from}

AssignmentBudget ==
    Cardinality(assignments) + InFlight("create_assignment") < MaxAssignments

AssignmentNext ==
    \/ \E i \in Txns, payload \in CreateAssignmentPayloads :
          CreateAssignmentStart(i, Admin, "p2", payload) /\ AssignmentBudget
    \/ \E i \in Txns : CreateAssignmentBody(i)
    \/ \E i \in Txns, id \in 1..MaxAssignments, effective_to \in AssignmentDates :
          EndDateAssignmentStart(i, Admin, id, effective_to)
    \/ \E i \in Txns : EndDateAssignmentBody(i)
    \/ \E i \in Txns : Return(i)

AssignmentSpec == Init /\ [][AssignmentNext]_vars

(***************************************************************************)
(* Policies alone: creates and updates racing on two sessions and with the *)
(* time-based and payroll accrual engines (one run at a time, so that no   *)
(* snapshot insert meets another).                                         *)
(***************************************************************************)
MaxChain == 3

\* CreatePolicyRequest values: a new key and one that is taken
CreatePolicyPayloads ==
    {[key |-> k, effective_from |-> Date(2025, 1, 1), settings |-> UnlimitedSettings] :
        k \in {"p1", "p3"}}

\* UpdatePolicyRequest values that keep the accrual method of the policy:
\* every date for p1, one date for the others (for p2 the period end of the
\* payroll runs)
ChainDates == {Date(2024, 1, 1), Date(2025, 1, 1), Date(2026, 1, 1), Date(2026, 1, 2)}

ChainPayloads(policy_id) ==
    IF policy_id = "p1"
    THEN {[effective_from |-> d, settings |-> TimeAccrualSettings] : d \in ChainDates}
    ELSE IF policy_id = "p2"
    THEN {[effective_from |-> Date(2025, 12, 31), settings |-> HoursWorkedAccrualSettings]}
    ELSE {[effective_from |-> Date(2025, 1, 1), settings |-> UnlimitedSettings]}

\* p1 grows to MaxChain versions, the other policies to MaxVersions; an
\* update that is refused for its date is always allowed
ChainBudget(policy_id, payload) ==
    \/ policy_id \notin DOMAIN versions
    \/ Len(versions[policy_id]) < (IF policy_id = "p1" THEN MaxChain ELSE MaxVersions)
    \/ payload.effective_from < Date(2025, 1, 1)

VersionNext ==
    \/ \E i \in Txns, payload \in CreatePolicyPayloads : CreatePolicyStart(i, Admin, payload)
    \/ \E i \in Txns : CreatePolicyBody(i)
    \/ \E i \in Txns, policy_id \in {"p1", "p2", "p3"} :
          \E payload \in ChainPayloads(policy_id) :
              UpdatePolicyStart(i, Admin, policy_id, payload) /\ ChainBudget(policy_id, payload)
    \/ \E i \in Txns : UpdatePolicyBody(i)
    \/ \E i \in Txns : SnapLock(i)
    \/ \E i \in Txns : SnapCreateOk(i)
    \/ \E i \in Txns, d \in TargetDates : AccrualStart(i, d) /\ NoEngineInFlight
    \/ \E i \in Txns : AccrualRow(i)
    \/ \E i \in Txns, payload \in MixedPayrollPayloads :
          PayrollStart(i, payload) /\ NoEngineInFlight
    \/ \E i \in Txns : PayrollRow(i)
    \/ \E i \in Txns : AccrualPost(i)
    \/ \E i \in Txns : EngineCommit(i)
    \/ \E i \in Txns : Return(i)

VersionSpec == Init /\ [][VersionNext]_vars

(***************************************************************************)
(* Two tenants: the employee of company c1 submits requests, and an admin  *)
(* of company c2 calls c1's paths, addresses c1's rows by id under its own *)
(* path, lists its own requests and posts the payroll webhook, which takes *)
(* the company from its body.  Here only the admin of c2 posts it.         *)
(***************************************************************************)
TenantNext ==
    \/ \E i \in Txns, payload \in PolicySubmitPayloads :
          SubmitStart(i, Owner, payload) /\ RequestBudget(Owner, payload, MaxRequests)
    \/ \E i \in Txns : SnapLock(i)
    \/ \E i \in Txns : SnapCreateOk(i)
    \/ \E i \in Txns : SnapCreateFail(i)
    \/ \E i \in Txns : SubmitBody(i)
    \/ \E i \in Txns : ScopeDenied(i, Foreign, "c1")
    \/ \E i \in Txns : ListRequests(i, Foreign)
    \/ \E i \in Txns, rid \in 1..MaxRequests : CancelStart(i, Foreign, rid)
    \/ \E i \in Txns, payload \in UpdatePolicyPayloads :
          UpdatePolicyStart(i, Foreign, "p2", payload)
    \/ \E i \in Txns, id \in 1..2, effective_to \in AssignmentDates :
          EndDateAssignmentStart(i, Foreign, id, effective_to)
    \/ \E i \in Txns, payload \in PayrollPayloads : PayrollStart(i, payload)
    \/ \E i \in Txns : PayrollRow(i)
    \/ \E i \in Txns : AccrualPost(i)
    \/ \E i \in Txns : EngineCommit(i)
    \/ \E i \in Txns : Return(i)

TenantSpec == Init /\ [][TenantNext]_vars

(***************************************************************************)
(* Properties.                                                             *)
(***************************************************************************)
RowsOf(t, types) ==
    {x \in ledger : /\ <<x.company_id, x.employee_id, x.policy_id>> = t
                    /\ x.entry_type \in types}
SignedSum(S) == SumTerms({<<x, x.amount_minutes>> : x \in S})
AbsSum(S) == SumTerms({<<x, Abs(x.amount_minutes)>> : x \in S})
RequestRows(k, type) ==
    {x \in ledger : x.source_id = RequestSourceId(k) /\ x.entry_type = type}
ExactlyOne(S, m) == Cardinality(S) = 1 /\ \A x \in S : Abs(x.amount_minutes) = m

\* C1: every committed snapshot row equals the recomputation from the
\* committed ledger: accrued is the signed sum of the ACCRUAL, ADJUSTMENT,
\* CARRYOVER and EXPIRATION rows, used the sum of |amount| of the USAGE rows,
\* held the sum of |amount| of the HOLD rows minus that of the HOLD_RELEASE
\* rows, whatever operations ran and however they interleaved.
C1_SnapshotMatchesLedger ==
    \A t \in Triples :
        snapshots[t].exists =>
            /\ snapshots[t].accrued_minutes =
                 SignedSum(RowsOf(t, {"ACCRUAL", "ADJUSTMENT", "CARRYOVER", "EXPIRATION"}))
            /\ snapshots[t].used_minutes = AbsSum(RowsOf(t, {"USAGE"}))
            /\ snapshots[t].held_minutes =
                 AbsSum(RowsOf(t, {"HOLD"})) - AbsSum(RowsOf(t, {"HOLD_RELEASE"}))

\* a snapshot carrying an accrual, an approved request and an expiration
C1_Witness ==
    \E t \in Triples :
        /\ snapshots[t].exists
        /\ snapshots[t].used_minutes > 0
        /\ RowsOf(t, {"ACCRUAL"}) # {}
        /\ RowsOf(t, {"EXPIRATION"}) # {}

\* C2: every committed snapshot row has
\* available_minutes = accrued_minutes - used_minutes - held_minutes.
C2_AvailableIsDerived ==
    \A t \in Triples :
        snapshots[t].exists =>
            snapshots[t].available_minutes =
                snapshots[t].accrued_minutes - snapshots[t].used_minutes
                    - snapshots[t].held_minutes

\* a snapshot with a balance accrued and part of it held
C2_Witness ==
    \E t \in Triples :
        /\ snapshots[t].exists
        /\ snapshots[t].accrued_minutes > 0
        /\ snapshots[t].held_minutes > 0
        /\ snapshots[t].available_minutes > 0

\* C3: a committed request is APPROVED if and only if the ledger holds
\* exactly one HOLD, exactly one HOLD_RELEASE and exactly one USAGE row with
\* source_id = request.id, all three of absolute amount requested_minutes.
C3_ApprovedIffThreeRows ==
    \A k \in 1..Len(requests) :
        requests[k].status = "APPROVED" <=>
            /\ ExactlyOne(RequestRows(k, "HOLD"), requests[k].requested_minutes)
            /\ ExactlyOne(RequestRows(k, "HOLD_RELEASE"), requests[k].requested_minutes)
            /\ ExactlyOne(RequestRows(k, "USAGE"), requests[k].requested_minutes)

\* an approved request beside one that is not
C3_Witness ==
    \E k, j \in 1..Len(requests) :
        requests[k].status = "APPROVED" /\ requests[j].status = "SUBMITTED"

\* C4: a committed SUBMITTED request has exactly one HOLD row and neither a
\* HOLD_RELEASE nor a USAGE row with source_id = request.id; a DENIED or
\* CANCELLED one has exactly one HOLD, exactly one HOLD_RELEASE and no USAGE.
C4_HoldRowsByStatus ==
    \A k \in 1..Len(requests) :
        /\ requests[k].status = "SUBMITTED" =>
              /\ Cardinality(RequestRows(k, "HOLD")) = 1
              /\ RequestRows(k, "HOLD_RELEASE") = {}
              /\ RequestRows(k, "USAGE") = {}
        /\ requests[k].status \in {"DENIED", "CANCELLED"} =>
              /\ Cardinality(RequestRows(k, "HOLD")) = 1
              /\ Cardinality(RequestRows(k, "HOLD_RELEASE")) = 1
              /\ RequestRows(k, "USAGE") = {}

\* a denied request and a cancelled one
C4_Witness ==
    \E k, j \in 1..Len(requests) :
        requests[k].status = "DENIED" /\ requests[j].status = "CANCELLED"

\* C5: a request row appears in state SUBMITTED (never DRAFT), its status
\* only ever changes from SUBMITTED to APPROVED, DENIED or CANCELLED, and a
\* row in one of these three states keeps it.
C5_Step ==
    /\ Len(requests') >= Len(requests)
    /\ \A k \in 1..Len(requests') :
        IF k > Len(requests)
        THEN requests'[k].status = "SUBMITTED"
        ELSE \/ requests'[k].status = requests[k].status
             \/ /\ requests[k].status = "SUBMITTED"
                /\ requests'[k].status \in {"APPROVED", "DENIED", "CANCELLED"}
C5_StatusMachine == [][C5_Step]_vars

\* two decisions raced for one request: one committed, the other failed
C5_Witness ==
    \E i \in Txns :
        /\ tx[i].pc = "done" /\ tx[i].op \in {"approve", "deny", "cancel"}
        /\ tx[i].res = "Internal"
        /\ requests[tx[i].rid].status \in {"APPROVED", "DENIED", "CANCELLED"}

\* C6: approve, deny or cancel invoked on a request whose status is not
\* SUBMITTED fails with BadRequest and leaves the request rows, the ledger
\* and the snapshots (version included) as they were.
C6_Step ==
    \A i \in Txns :
        (/\ tx[i].pc = "idle"
         /\ tx'[i].op \in {"approve", "deny", "cancel"}
         /\ tx'[i].rid \in 1..Len(requests)
         /\ requests[tx'[i].rid].status # "SUBMITTED")
        => /\ tx'[i].pc = "done"
           /\ tx'[i].res = "BadRequest"
           /\ requests' = requests
           /\ ledger' = ledger
           /\ snapshots' = snapshots
C6_NonSubmittedRejected == [][C6_Step]_vars

\* a decision on a decided request has been refused
C6_Witness ==
    \E i \in Txns :
        /\ tx[i].pc = "done" /\ tx[i].op \in {"approve", "deny", "cancel"}
        /\ tx[i].res = "BadRequest"
        /\ requests[tx[i].rid].status \in {"APPROVED", "DENIED", "CANCELLED"}

\* the balance a submit finds under the snapshot lock
LockedAvailable(i) ==
    LET t == TripleOf(tx[i]) IN
    IF snapshots[t].exists THEN snapshots[t].available_minutes
    ELSE tx[i].wsnap[t].available_minutes

GatePasses(settings, new_available) ==
    /\ ~settings.allow_negative => new_available >= 0
    /\ (settings.allow_negative /\ settings.negative_limit_minutes # NULL)
          => new_available >= 0 - settings.negative_limit_minutes

\* C7: for a non-unlimited policy a submit commits a request only if
\* new_available = snapshot.available - requested_minutes is >= 0 when
\* allow_negative is false, and >= -negative_limit_minutes when allow_negative
\* is true with a limit; otherwise it fails with BadRequest and creates no
\* request row, no HOLD row and no snapshot change.
C7_Step ==
    \A i \in Txns :
        (tx[i].op = "submit" /\ tx[i].pc = "body" /\ tx'[i].pc = "done") =>
            LET settings == (CHOOSE v \in get_current_version(tx[i].policy_id) : TRUE).settings
                new_available == LockedAvailable(i) - tx[i].requested_minutes
            IN  settings.type # "UNLIMITED" =>
                    /\ Len(requests') > Len(requests) => GatePasses(settings, new_available)
                    /\ ~GatePasses(settings, new_available) =>
                          /\ tx'[i].res = "BadRequest"
                          /\ requests' = requests
                          /\ ledger' = ledger
                          /\ snapshots' = snapshots
C7_SubmitBalanceGate == [][C7_Step]_vars

\* a submit was refused at the negative limit while a hold is outstanding
C7_Witness ==
    \E i \in Txns :
        /\ tx[i].pc = "done" /\ tx[i].op = "submit" /\ tx[i].res = "BadRequest"
        /\ tx[i].msg = "Request would exceed negative balance limit"
        /\ snapshots[TripleOf(tx[i])].held_minutes > 0

\* C8: a submit that reaches the overlap check is rejected with Conflict
\* exactly when another SUBMITTED or APPROVED request of the same (company,
\* employee, policy) has start_at < new.end_at and end_at > new.start_at.
C8_Step ==
    \A i \in Txns :
        (tx[i].pc = "idle" /\ tx'[i].op = "submit" /\ tx'[i].res # "BadRequest") =>
            LET new == tx'[i]
                others == {k \in 1..Len(requests) :
                             /\ requests[k].company_id = new.company_id
                             /\ requests[k].employee_id = new.employee_id
                             /\ requests[k].policy_id = new.policy_id
                             /\ requests[k].status \in {"SUBMITTED", "APPROVED"}
                             /\ requests[k].start_at < new.end_at
                             /\ requests[k].end_at > new.start_at}
            IN  (tx'[i].res = "Conflict") <=> (others # {})
C8_OverlapConflict == [][C8_Step]_vars

\* C9: a submit carrying the (company, employee, idempotency_key) of a
\* committed request returns that request without error and changes neither
\* the request rows, nor the ledger, nor the snapshots.
C9_Step ==
    \A i \in Txns :
        LET new == tx'[i]
            holders == KeyHolders(new.company_id, new.employee_id, new.idempotency_key)
        IN  (/\ new.op = "submit" /\ tx[i].pc # "done" /\ new.pc = "done"
             /\ new.idempotency_key # "" /\ holders # {})
            => /\ new.res = "OK"
               /\ new.ret \in holders
               /\ requests' = requests
               /\ ledger' = ledger
               /\ snapshots' = snapshots
C9_IdempotentSubmit == [][C9_Step]_vars

Keys(L) == {LedgerKey(x) : x \in L}
UniqueKeys(L) == \A x, y \in L : LedgerKey(x) = LedgerKey(y) => x = y
NewRows(t) ==
    {x \in ledger' \ ledger : <<x.company_id, x.employee_id, x.policy_id>> = t}

\* the (source_type, source_id, entry_type) keys of the row an engine is at
RunKeys(me) ==
    LET r == me.row
        year == YearOf(me.target_date) - 1
    IN  IF me.op = "accrual"
        THEN {<<"SYSTEM", build_time_accrual_source_id(r.policy_id, r.employee_id,
                                                       me.target_date), "ACCRUAL">>}
        ELSE IF me.op = "payroll"
        THEN {<<"PAYROLL", build_payroll_source_id(me.payroll_run_id, r.employee_id,
                                                   r.policy_id), "ACCRUAL">>}
        ELSE IF me.op = "carryover"
        THEN {<<"SYSTEM", CarryoverSourceId(r.policy_id, r.employee_id, year),
                "EXPIRATION">>,
              <<"SYSTEM", CarryoverMarkerSourceId(r.policy_id, r.employee_id, year),
                "CARRYOVER">>}
        ELSE {<<"SYSTEM", CalendarExpirationSourceId(r.policy_id, r.employee_id,
                                                     me.target_date), "EXPIRATION">>,
              <<"SYSTEM", CarryoverExpirySourceId(r.policy_id, r.employee_id, year),
                "EXPIRATION">>}

\* C10: executions carrying the same deterministic source_id, racing or in
\* sequence, commit at most one ledger row per (source_type, source_id,
\* entry_type); every commit moves the snapshot by exactly the rows it adds
\* (accrued by their sum, version by one per posted amount), so a key moves
\* it once; an engine row whose keys are all taken adds nothing, is counted
\* as skipped and leaves the run able to commit.
C10_Step ==
    /\ UniqueKeys(ledger')
    /\ \A t \in Triples :
        IF snapshots'[t].exists
        THEN /\ snapshots'[t].accrued_minutes
                  - (IF snapshots[t].exists THEN snapshots[t].accrued_minutes ELSE 0)
                  = SignedSum(NewRows(t))
             /\ snapshots'[t].version
                  - (IF snapshots[t].exists THEN snapshots[t].version ELSE 1)
                  = Cardinality({x \in NewRows(t) : x.entry_type # "CARRYOVER"})
        ELSE NewRows(t) = {}
    /\ \A i \in Txns :
        /\ (IsEngine(tx[i].op) /\ tx[i].pc = "body" /\ tx'[i].pc # "body") =>
              /\ tx'[i].pc = "loop" /\ ~tx'[i].failed
              /\ \A x \in tx'[i].wledger \ tx[i].wledger :
                    LedgerKey(x) \notin Keys(ledger \cup tx[i].wledger)
              /\ RunKeys(tx[i]) \subseteq Keys(ledger) =>
                    /\ tx'[i].wledger = tx[i].wledger
                    /\ tx'[i].wsnap = tx[i].wsnap
                    /\ tx'[i].skipped > tx[i].skipped
        /\ (IsEngine(tx'[i].op) /\ tx'[i].pc = "done" /\ ~tx'[i].failed) =>
              tx'[i].res = "OK"
C10_OneRowPerSourceId == [][C10_Step]_vars

\* a second accrual run for the same date met the committed row (the bank
\* cap would still have allowed an accrual) and goes on
C10_Witness ==
    \E i \in Txns :
        /\ tx[i].op = "accrual" /\ tx[i].pc = "loop" /\ ~tx[i].failed
        /\ tx[i].skipped = 1 /\ tx[i].posted = 0
        /\ <<"SYSTEM", build_time_accrual_source_id("p1", "e1", tx[i].target_date),
             "ACCRUAL">> \in Keys(ledger)
        /\ snapshots[<<"c1", "e1", "p1">>].accrued_minutes = 480

\* get_or_create_snapshot_for_update has returned the snapshot of t to
\* transaction i, which has not ended since
Holds(i, t) ==
    /\ tx[i].wsnap[t].exists
    /\ ~(tx[i].pc = "create" /\ TripleOf(tx[i].row) = t)

\* C11: whenever get_or_create_snapshot_for_update has returned the snapshot
\* of a triple to a transaction, that transaction holds the row's write lock
\* until it ends, so no two transactions hold one triple's snapshot at a
\* time; of two transactions creating the row concurrently at most one
\* proceeds, and the one that fails commits nothing.
C11_Step ==
    /\ \A t \in Triples : \A i \in Txns :
          Holds(i, t) =>
              /\ lock[t] = i
              /\ \A j \in Txns \ {i} : ~Holds(j, t)
              /\ (tx'[i].pc \notin {"done", "idle"} /\ ~tx'[i].failed) => lock'[t] = i
    /\ \A i \in Txns :
          (tx[i].pc = "create" /\ snapshots[TripleOf(tx[i].row)].exists
                /\ tx'[i] # tx[i]) =>
              /\ tx'[i].pc = "done" \/ tx'[i].failed
              /\ \A t \in Triples : ~(Holds(i, t))'
              /\ UNCHANGED dbvars
    /\ \A i \in Txns : (tx[i].failed /\ tx'[i] # tx[i]) => UNCHANGED dbvars
C11_SnapshotLockHeld == [][C11_Step]_vars

\* a transaction that lost the race to create the snapshot row has failed
\* and the row is the winner's
C11_Witness ==
    \E i \in Txns :
        /\ tx[i].pc = "done" /\ tx[i].op \in {"submit", "adjust"}
        /\ tx[i].res = "Internal" /\ tx[i].msg = "IntegrityError"
        /\ snapshots[TripleOf(tx[i])].exists
        /\ snapshots[TripleOf(tx[i])].version = 2

\* (accrued, used, held) of the committed snapshot of t, or of the ledger
\* when the row does not exist yet
Committed(t) ==
    IF snapshots[t].exists
    THEN [accrued |-> snapshots[t].accrued_minutes, used |-> snapshots[t].used_minutes,
          held |-> snapshots[t].held_minutes]
    ELSE compute_balance_from_ledger(ledger, t[1], t[2], t[3])

\* C12: the balance mutations of one triple take effect one at a time in
\* commit order: a request or adjustment handler evaluates its gate on the
\* snapshot last committed, every commit writes the last committed snapshot
\* plus the effect of its own ledger rows (no lost update), no other
\* transaction holds the snapshot meanwhile, and the version written is
\* greater than the one it replaces.
C12_Step ==
    \A t \in Triples :
        /\ \A i \in Txns :
              (/\ tx[i].pc = "body" /\ ~IsEngine(tx[i].op)
               /\ TripleOf(tx[i].row) = t /\ snapshots[t].exists)
              => tx[i].wsnap[t] = snapshots[t]
        /\ snapshots'[t] # snapshots[t] =>
              LET d == compute_balance_from_ledger(ledger' \ ledger, t[1], t[2], t[3]) IN
              /\ \E i \in Txns :
                    /\ Holds(i, t) /\ tx'[i].pc = "done"
                    /\ \A j \in Txns \ {i} : ~Holds(j, t)
              /\ snapshots'[t].accrued_minutes = Committed(t).accrued + d.accrued
              /\ snapshots'[t].used_minutes = Committed(t).used + d.used
              /\ snapshots'[t].held_minutes = Committed(t).held + d.held
              /\ snapshots[t].exists => snapshots'[t].version > snapshots[t].version
C12_CommitOrder == [][C12_Step]_vars

\* a mutation waits for the snapshot another one holds, after an earlier
\* mutation of the same triple was committed
C12_Witness ==
    \E i \in Txns, j \in Txns, t \in Triples :
        /\ i # j /\ Holds(i, t) /\ tx[i].pc = "body"
        /\ tx[j].pc = "lock" /\ TripleOf(tx[j].row) = t
        /\ tx[i].op # tx[j].op
        /\ snapshots[t].exists /\ snapshots[t].version >= 2

\* bank_cap_minutes of the version of a policy in force
BankCap(policy_id) ==
    (CHOOSE v \in get_current_version(policy_id) : TRUE).settings.bank_cap_minutes

\* C13: on a triple whose policy has bank_cap_minutes = C and whose ledger
\* holds nothing that raises the balance but accruals, snapshot.accrued <= C
\* after every commit, with accrual runs racing; an accrual whose clamped
\* amount is <= 0 posts no ledger entry and leaves the snapshot alone.
C13_Step ==
    /\ \A t \in Triples :
          (/\ snapshots'[t].exists
           /\ BankCap(t[3]) # NULL
           /\ \A x \in ledger' :
                 (<<x.company_id, x.employee_id, x.policy_id>> = t
                    /\ x.entry_type = "ADJUSTMENT") => x.amount_minutes <= 0)
          => snapshots'[t].accrued_minutes <= BankCap(t[3])
    /\ \A x \in ledger' : x.entry_type = "ACCRUAL" => x.amount_minutes > 0
    /\ \A i \in Txns :
          (tx[i].op \in {"accrual", "payroll"} /\ tx[i].pc = "body"
                /\ tx'[i].pc # "body") =>
              LET t == TripleOf(tx[i].row)
                  C == BankCap(t[3])
                  headroom == C - tx[i].wsnap[t].accrued_minutes
              IN  (C # NULL /\ (headroom <= 0 \/ tx[i].amount_minutes <= 0)) =>
                      /\ tx'[i].wledger = tx[i].wledger
                      /\ tx'[i].wsnap = tx[i].wsnap
C13_BankCap == [][C13_Step]_vars

\* two payroll runs have accrued, the later one clamped to the headroom
C13_Witness ==
    LET t == <<"c1", "e1", "p2">>
        rows == {x \in ledger : <<x.company_id, x.employee_id, x.policy_id>> = t}
    IN  /\ snapshots[t].exists
        /\ snapshots[t].accrued_minutes = BankCap("p2")
        /\ Cardinality(rows) = 2
        /\ \A x \in rows : x.entry_type = "ACCRUAL" /\ x.source_type = "PAYROLL"

\* the ACCRUAL rows of L posted by a time-based run for (policy, employee, date)
AccrualRowsFor(L, policy_id, employee_id, target_date) ==
    {x \in L : /\ x.entry_type = "ACCRUAL" /\ x.source_type = "SYSTEM"
               /\ x.source_id = <<"accrual", policy_id, employee_id, target_date>>}

\* C14: running run_time_based_accruals again for a target date leaves the
\* ledger rows and the snapshot (accrued, available, version) as the first
\* run left them: a run adds rows of its own date only, changes nothing on a
\* triple that has the date's row, and there is at most one ACCRUAL row per
\* (policy, employee, target date).
C14_Step ==
    /\ \A t \in Triples, d \in TargetDates :
          Cardinality(AccrualRowsFor(ledger', t[3], t[2], d)) <= 1
    /\ \A i \in Txns :
          (tx[i].op = "accrual" /\ tx[i].pc # "done" /\ tx'[i].pc = "done") =>
              \A t \in Triples :
                  /\ NewRows(t) \subseteq
                        AccrualRowsFor(ledger', t[3], t[2], tx[i].target_date)
                  /\ AccrualRowsFor(ledger, t[3], t[2], tx[i].target_date) # {} =>
                        /\ NewRows(t) = {}
                        /\ snapshots'[t] = snapshots[t]
C14_AccrualRerun == [][C14_Step]_vars

\* a second run for the date has committed: one row, one snapshot change
C14_Witness ==
    \E i \in Txns :
        /\ tx[i].op = "accrual" /\ tx[i].pc = "done" /\ tx[i].res = "OK"
        /\ tx[i].skipped = 1 /\ tx[i].posted = 0
        /\ AccrualRowsFor(ledger, "p1", "e1", tx[i].target_date) # {}
        /\ snapshots[<<"c1", "e1", "p1">>].accrued_minutes = 480
        /\ snapshots[<<"c1", "e1", "p1">>].version = 2

\* the ACCRUAL rows of L posted for (payroll run, employee, policy)
PayrollRowsFor(L, payroll_run_id, employee_id, policy_id) ==
    {x \in L : /\ x.entry_type = "ACCRUAL" /\ x.source_type = "PAYROLL"
               /\ x.source_id = <<"payroll", policy_id, employee_id, payroll_run_id>>}

\* C15: delivering payroll_processed again with the same payroll_run_id
\* leaves the snapshot and the ledger rows as the first delivery left them:
\* a delivery adds rows of its own run only, changes nothing on a triple
\* that has the run's row, and there is at most one row per run.
C15_Step ==
    /\ \A t \in Triples, q \in PayrollPayloads :
          Cardinality(PayrollRowsFor(ledger', q.payroll_run_id, t[2], t[3])) <= 1
    /\ \A i \in Txns :
          (tx[i].op = "payroll" /\ tx[i].pc # "done" /\ tx'[i].pc = "done") =>
              \A t \in Triples :
                  /\ NewRows(t) \subseteq
                        PayrollRowsFor(ledger', tx[i].payroll_run_id, t[2], t[3])
                  /\ PayrollRowsFor(ledger, tx[i].payroll_run_id, t[2], t[3]) # {} =>
                        /\ NewRows(t) = {}
                        /\ snapshots'[t] = snapshots[t]
C15_PayrollReplay == [][C15_Step]_vars

\* the webhook of run 1 was delivered again while the bank cap left
\* headroom: the delivery is skipped on its key
C15_Witness ==
    \E i \in Txns :
        /\ tx[i].op = "payroll" /\ tx[i].pc = "done" /\ tx[i].res = "OK"
        /\ tx[i].payroll_run_id = 1
        /\ tx[i].skipped = 1 /\ tx[i].posted = 0
        /\ PayrollRowsFor(ledger, 1, "e1", "p2") # {}
        /\ snapshots[<<"c1", "e1", "p2">>].accrued_minutes = 240
        /\ snapshots[<<"c1", "e1", "p2">>].version = 2

\* the operations whose rows this step commits on t: the rows of one
\* operation share their source_id, and a CARRYOVER marker moves no balance
NewOps(t) == {x.source_id : x \in {y \in NewRows(t) : y.entry_type # "CARRYOVER"}}

\* C16: snapshot.version only grows: every committed operation that changes
\* accrued, used or held (submit, approve, deny, cancel, adjustment, posted
\* accrual, posted expiration) raises it by exactly 1, starting from 1 at
\* creation, and an operation skipped as a duplicate leaves it as it was.
C16_Step ==
    /\ \A t \in Triples :
          /\ snapshots[t].exists =>
                /\ snapshots'[t].exists
                /\ snapshots'[t].version = snapshots[t].version + Cardinality(NewOps(t))
                /\ (\/ snapshots'[t].accrued_minutes # snapshots[t].accrued_minutes
                    \/ snapshots'[t].used_minutes # snapshots[t].used_minutes
                    \/ snapshots'[t].held_minutes # snapshots[t].held_minutes)
                   => snapshots'[t].version > snapshots[t].version
                /\ NewOps(t) = {} => snapshots'[t] = snapshots[t]
          /\ (~snapshots[t].exists /\ snapshots'[t].exists) =>
                snapshots'[t].version = 1 + Cardinality(NewOps(t))
    /\ \A i \in Txns :
          (/\ IsEngine(tx[i].op) /\ tx[i].pc = "body" /\ tx'[i].pc # "body"
           /\ tx'[i].posted = tx[i].posted /\ tx'[i].expired = tx[i].expired)
          => tx'[i].wsnap = tx[i].wsnap
C16_Step2 ==
    \A i \in Txns :
        (IsEngine(tx[i].op) /\ tx[i].pc = "body" /\ tx'[i].pc # "body") =>
            LET t == TripleOf(tx[i].row) IN
            tx'[i].wsnap[t].version - tx[i].wsnap[t].version
                = Cardinality({x \in tx'[i].wledger \ tx[i].wledger :
                                   x.entry_type # "CARRYOVER"})
C16_VersionMonotone == [][C16_Step /\ C16_Step2]_vars

\* a snapshot went through creation, a credit, a submit and an approval
C16_Witness ==
    \E k \in 1..Len(requests) :
        LET t == <<requests[k].company_id, requests[k].employee_id,
                   requests[k].policy_id>> IN
        /\ requests[k].status = "APPROVED"
        /\ snapshots[t].version = 4
        /\ snapshots[t].used_minutes = requests[k].requested_minutes

\* C18: in the accrual, payroll, carryover and expiration engines a failure
\* on one assignment adds one to errors, leaves the run in its loop over the
\* remaining assignments, and the commit that ends the run succeeds and
\* persists the entries the run posted.
C18_Step ==
    \A i \in Txns :
        IsEngine(tx[i].op) =>
            /\ tx'[i].errors > tx[i].errors =>
                    /\ tx'[i].errors = tx[i].errors + 1
                    /\ tx'[i].pc = "loop"
            /\ (tx[i].pc = "loop" /\ tx'[i].pc = "done") =>
                    /\ tx'[i].res = "OK"
                    /\ ledger' = ledger \cup tx[i].wledger
C18_PerItemFailure == [][C18_Step]_vars

\* the CARRYOVER marker of (policy, employee, year) is among the rows L
HasMarker(L, t, year) ==
    \E x \in L :
        LedgerKey(x) = <<"SYSTEM", CarryoverMarkerSourceId(t[3], t[2], year), "CARRYOVER">>

\* C20: a carryover run for a year whose CARRYOVER marker of an assignment
\* is already committed posts no entry for that assignment and leaves its
\* snapshot as it was, whatever the balance is at the time of the run.
C20_Step ==
    \A i \in Txns :
        (tx[i].op = "carryover" /\ tx[i].pc = "loop" /\ tx'[i].pc = "done") =>
            \A t \in Triples :
                HasMarker(ledger, t, YearOf(tx[i].target_date) - 1) =>
                    /\ NewRows(t) = {}
                    /\ snapshots'[t] = snapshots[t]
C20_MarkerMeansProcessed == [][C20_Step]_vars

\* the audit record that belongs to a ledger row
AuditOf(x) ==
    IF x.source_type = "REQUEST"
    THEN [entity_type |-> "REQUEST", entity_id |-> x.source_id,
          entry_type |-> "",
          action |-> IF x.entry_type = "HOLD" THEN "SUBMIT" ELSE "APPROVE"]
    ELSE IF x.source_type = "ADMIN"
    THEN [entity_type |-> "ADJUSTMENT", entity_id |-> x.source_id,
          entry_type |-> "ADJUSTMENT", action |-> "CREATE"]
    ELSE AuditRow(x)

\* C17: no balance mutation is committed without its audit record: every
\* committed ledger row posted by submit, by an adjustment or by the
\* accrual, carryover and expiration engines has its audit record committed
\* with it, also when an audit write fails.
C17_NoMutationWithoutAudit ==
    \A x \in ledger : AuditOf(x) \in audit

\* the settings create_adjustment resolved before it took the snapshot lock
AdjustSettings(i) == versions[tx[i].policy_id][tx[i].version_id].settings

\* the adjustment is refused and nothing is posted
AdjustRefused(i) ==
    /\ tx'[i].res = "BadRequest"
    /\ ledger' = ledger
    /\ snapshots' = snapshots

\* C19 as stated: for a non-unlimited policy an adjustment of any sign is
\* accepted only if new_available = snapshot.available + amount passes the
\* gate of submit, and is otherwise refused with BadRequest, posting no
\* ADJUSTMENT row and changing no snapshot; for an unlimited policy the gate
\* is skipped.
C19_AnySignStep ==
    \A i \in Txns :
        (tx[i].op = "adjust" /\ tx[i].pc = "body" /\ tx'[i].pc = "done") =>
            LET settings == AdjustSettings(i)
                new_available == LockedAvailable(i) + tx[i].amount_minutes
            IN  IF settings.type = "UNLIMITED"
                THEN tx'[i].res # "BadRequest"
                ELSE /\ ledger' # ledger => GatePasses(settings, new_available)
                     /\ ~GatePasses(settings, new_available) => AdjustRefused(i)
C19_AnySignGate == [][C19_AnySignStep]_vars

\* C19 (amended): for a non-unlimited policy an adjustment with a negative
\* amount is accepted only if new_available = snapshot.available + amount
\* passes the gate of submit, and is otherwise refused with BadRequest,
\* posting no ADJUSTMENT row and changing no snapshot; an adjustment with
\* amount >= 0, and any adjustment under an unlimited policy, skips the gate
\* and is never refused with BadRequest.
C19_Step ==
    \A i \in Txns :
        (tx[i].op = "adjust" /\ tx[i].pc = "body" /\ tx'[i].pc = "done") =>
            LET settings == AdjustSettings(i)
                new_available == LockedAvailable(i) + tx[i].amount_minutes
            IN  IF settings.type = "UNLIMITED" \/ tx[i].amount_minutes >= 0
                THEN tx'[i].res # "BadRequest"
                ELSE /\ ledger' # ledger => GatePasses(settings, new_available)
                     /\ ~GatePasses(settings, new_available) => AdjustRefused(i)
C19_NegativeAdjustmentGate == [][C19_Step]_vars

\* a negative adjustment was refused under the updated settings, which no
\* longer allow a negative balance
C19_Witness ==
    \E i \in Txns :
        /\ tx[i].pc = "done" /\ tx[i].op = "adjust" /\ tx[i].res = "BadRequest"
        /\ tx[i].msg = "Insufficient balance for this adjustment"
        /\ tx[i].amount_minutes < 0
        /\ Len(versions["p2"]) = 2
        /\ snapshots[<<"c1", "e1", "p2">>].available_minutes < 0

\* C30: a successful approve of a request of r minutes changes the snapshot
\* by exactly held' = held - r, used' = used + r, version' = version + 1 and
\* leaves accrued and available as they were.
C30_Step ==
    \A i \in Txns :
        (tx[i].op = "approve" /\ tx[i].pc = "body" /\ tx'[i].pc = "done"
            /\ tx'[i].res = "OK") =>
            LET t == TripleOf(tx[i])
                r == requests[tx[i].rid].requested_minutes
            IN  /\ snapshots[t].exists
                /\ snapshots'[t].held_minutes = snapshots[t].held_minutes - r
                /\ snapshots'[t].used_minutes = snapshots[t].used_minutes + r
                /\ snapshots'[t].version = snapshots[t].version + 1
                /\ snapshots'[t].accrued_minutes = snapshots[t].accrued_minutes
                /\ snapshots'[t].available_minutes = snapshots[t].available_minutes
                /\ \A u \in Triples \ {t} : snapshots'[u] = snapshots[u]
C30_ApproveDelta == [][C30_Step]_vars

\* a request was approved while the other request of the triple is still held
C30_Witness ==
    \E i \in Txns :
        /\ tx[i].pc = "done" /\ tx[i].op = "approve" /\ tx[i].res = "OK"
        /\ snapshots[TripleOf(tx[i])].used_minutes = requests[tx[i].rid].requested_minutes
        /\ snapshots[TripleOf(tx[i])].held_minutes > 0

IsJan1(d) == MonthOf(d) = 1 /\ DayOf(d) = 1

\* C25: run_carryover_processing called with a target_date that is not
\* January 1 returns at once: it never enters its loop, posts no ledger
\* entry and modifies no snapshot.
C25_Step ==
    \A i \in Txns :
        (tx'[i].op = "carryover" /\ ~IsJan1(tx'[i].target_date)) =>
            /\ tx'[i].pc = "done" /\ tx'[i].res = "OK"
            /\ tx'[i].wledger = {}
            /\ ledger' = ledger
            /\ snapshots' = snapshots
C25_OnlyOnJan1 == [][C25_Step]_vars

\* a run for Jan 2 returned although the balance exceeds the carryover cap
C25_Witness ==
    \E i \in Txns :
        /\ tx[i].pc = "done" /\ tx[i].op = "carryover"
        /\ ~IsJan1(tx[i].target_date)
        /\ snapshots[<<"c1", "e1", "p1">>].exists
        /\ snapshots[<<"c1", "e1", "p1">>].available_minutes > 240
        /\ ~HasMarker(ledger, <<"c1", "e1", "p1">>, YearOf(tx[i].target_date) - 1)

\* the entries the carryover run of a year has committed for a triple
CarryoverRowsOf(L, t, year) ==
    {x \in L : /\ <<x.company_id, x.employee_id, x.policy_id>> = t
               /\ x.source_id \in {CarryoverSourceId(t[3], t[2], year),
                                   CarryoverMarkerSourceId(t[3], t[2], year)}}

\* the triples whose assignment is active on d under settings with carryover
CarryoverTriples(d) ==
    {t \in Triples :
        /\ \E a \in assignments :
              <<a.company_id, a.employee_id, a.policy_id>> = t /\ ActiveOn(a, d)
        /\ \A v \in get_current_version(t[3]) : v.settings.carryover.enabled
        /\ get_current_version(t[3]) # {}}

\* C21: the first carryover run on Jan 1 for an assignment with carryover
\* enabled and available = accrued - used - held > 0 takes
\* carry = min(available, cap_minutes) (available when the cap is null) and
\* expire = available - carry; it posts exactly one EXPIRATION of -expire when
\* expire > 0 and lowers accrued by expire, so that available = carry with
\* used and held unchanged, and exactly one CARRYOVER marker of amount 0
\* with carried_minutes = carry and expired_minutes = expire.  When
\* available <= 0 it posts nothing.
C21_Step ==
    \A i \in Txns :
        (tx[i].op = "carryover" /\ tx[i].pc = "loop" /\ tx'[i].pc = "done"
            /\ tx'[i].res = "OK" /\ tx[i].errors = 0) =>
            LET year == YearOf(tx[i].target_date) - 1 IN
            \A t \in CarryoverTriples(tx[i].target_date) :
                CarryoverRowsOf(ledger, t, year) = {} =>
                    LET before == Committed(t)
                        available == before.accrued - before.used - before.held
                        cap == (CHOOSE v \in get_current_version(t[3]) : TRUE)
                                    .settings.carryover.cap_minutes
                        carry == IF cap # NULL THEN Min(available, cap) ELSE available
                        expire == available - carry
                        posted == NewRows(t)
                        expirations == {x \in posted : x.entry_type = "EXPIRATION"}
                        markers == {x \in posted : x.entry_type = "CARRYOVER"}
                    IN  IF available <= 0
                        THEN posted = {}
                        ELSE /\ posted = expirations \cup markers
                             /\ Cardinality(markers) = 1
                             /\ \A x \in markers :
                                   /\ x.amount_minutes = 0
                                   /\ x.carried_minutes = carry
                                   /\ x.expired_minutes = expire
                             /\ Cardinality(expirations) = (IF expire > 0 THEN 1 ELSE 0)
                             /\ \A x \in expirations : x.amount_minutes = 0 - expire
                             /\ snapshots'[t].accrued_minutes = before.accrued - expire
                             /\ snapshots'[t].used_minutes = before.used
                             /\ snapshots'[t].held_minutes = before.held
                             /\ snapshots'[t].available_minutes = carry
C21_CarryoverAmounts == [][C21_Step]_vars

\* a run expired the excess over the cap while a hold was outstanding
C21_Witness ==
    \E i \in Txns :
        /\ tx[i].pc = "done" /\ tx[i].op = "carryover" /\ tx[i].res = "OK"
        /\ snapshots[<<"c1", "e1", "p1">>].held_minutes > 0
        /\ snapshots[<<"c1", "e1", "p1">>].available_minutes = 240
        /\ \E x \in ledger : /\ x.entry_type = "CARRYOVER"
                             /\ x.carried_minutes = 240
                             /\ x.expired_minutes > 0

\* the settings of the policy of a triple (its current version)
SettingsOf(t) == (CHOOSE v \in get_current_version(t[3]) : TRUE).settings

\* C22: post-carryover expiration posts an EXPIRATION only when target_date
\* is Jan 1 + carryover.expires_after_days and the CARRYOVER marker of year
\* target.year - 1 exists with carried_minutes > 0; the amount expired is
\* min(carried_minutes, max(available, 0)): it never exceeds the carried
\* amount, never makes available negative, and leaves used and held unchanged.
C22_Step ==
    \A i \in Txns :
        (tx[i].op = "expiration" /\ tx[i].pc = "loop" /\ tx'[i].pc = "done") =>
            LET d == tx[i].target_date
                year == YearOf(d) - 1
            IN
            \A t \in Triples :
                LET posted == {x \in NewRows(t) :
                                 x.source_id = CarryoverExpirySourceId(t[3], t[2], year)}
                    before == Committed(t)
                    available == before.accrued - before.used - before.held
                    carried == MarkerCarried(ledger, t[3], t[2], year)
                    expire == Min(carried, Max(available, 0))
                IN  posted # {} =>
                        /\ CarryoverDue(SettingsOf(t), d)
                        /\ HasMarker(ledger, t, year)
                        /\ carried > 0
                        /\ NewRows(t) = posted
                        /\ Cardinality(posted) = 1
                        /\ \A x \in posted : /\ x.entry_type = "EXPIRATION"
                                             /\ x.amount_minutes = 0 - expire
                                             /\ 0 - x.amount_minutes <= carried
                        /\ snapshots'[t].accrued_minutes = before.accrued - expire
                        /\ snapshots'[t].used_minutes = before.used
                        /\ snapshots'[t].held_minutes = before.held
                        /\ snapshots'[t].available_minutes = available - expire
                        /\ snapshots'[t].available_minutes >= 0
C22_CarryoverExpiration == [][C22_Step]_vars

\* the carried 240 minutes expired and the rest of the balance was kept
C22_Witness ==
    /\ \E x \in ledger :
          /\ x.source_id = CarryoverExpirySourceId("p1", "e1", 2025)
          /\ x.amount_minutes = 0 - 240
    /\ snapshots[<<"c1", "e1", "p1">>].available_minutes > 0
    /\ \E i \in Txns : tx[i].pc = "done" /\ tx[i].op = "expiration"

\* C23: calendar-date expiration posts an EXPIRATION only when
\* expiration.enabled, target_date matches (expires_on_month, expires_on_day)
\* and available > 0; the entry amount is -available, after which
\* available = 0 with used and held unchanged; on any other date, or when
\* available <= 0, it posts no entry and the balance is left as it was.
C23_Step ==
    \A i \in Txns :
        (tx[i].op = "expiration" /\ tx[i].pc = "loop" /\ tx'[i].pc = "done") =>
            LET d == tx[i].target_date IN
            \A t \in Triples :
                LET posted == {x \in NewRows(t) :
                                 x.source_id = CalendarExpirationSourceId(t[3], t[2], d)}
                    before == Committed(t)
                    available == before.accrued - before.used - before.held
                    due == get_current_version(t[3]) # {} /\ CalendarDue(SettingsOf(t), d)
                IN  /\ posted # {} =>
                        /\ due /\ SettingsOf(t).expiration.enabled
                        /\ available > 0
                        /\ NewRows(t) = posted
                        /\ Cardinality(posted) = 1
                        /\ \A x \in posted : /\ x.entry_type = "EXPIRATION"
                                             /\ x.amount_minutes = 0 - available
                        /\ snapshots'[t].accrued_minutes = before.accrued - available
                        /\ snapshots'[t].used_minutes = before.used
                        /\ snapshots'[t].held_minutes = before.held
                        /\ snapshots'[t].available_minutes = 0
                    /\ (~due \/ available <= 0) =>
                        /\ posted = {}
                        /\ NewRows(t) = {} => Committed(t)' = before
C23_CalendarExpiration == [][C23_Step]_vars

\* the available 240 minutes expired on Jan 2 while 240 stay on hold
C23_Witness ==
    /\ \E x \in ledger :
          /\ x.source_id = CalendarExpirationSourceId("p1", "e1", Date(2026, 1, 2))
          /\ x.amount_minutes = 0 - 240
    /\ snapshots[<<"c1", "e1", "p1">>].held_minutes = 240
    /\ snapshots[<<"c1", "e1", "p1">>].available_minutes = 0
    /\ \E i \in Txns : tx[i].pc = "done" /\ tx[i].op = "expiration"

\* an earlier expiration run for target date d has posted for the triple
ExpiredBefore(L, t, d) ==
    \E x \in L :
        /\ x.entry_type = "EXPIRATION"
        /\ \/ x.source_id = CalendarExpirationSourceId(t[3], t[2], d)
           \/ /\ x.source_id = CarryoverExpirySourceId(t[3], t[2], YearOf(d) - 1)
              /\ CarryoverDue(SettingsOf(t), d)

\* C24: once run_expiration_processing has run for a target date, running it
\* again for the same date posts no additional EXPIRATION entry and leaves
\* every snapshot unchanged.
C24_Step ==
    \A i \in Txns :
        (tx[i].op = "expiration" /\ tx[i].pc = "loop" /\ tx'[i].pc = "done") =>
            \A t \in Triples :
                ExpiredBefore(ledger, t, tx[i].target_date) =>
                    /\ NewRows(t) = {}
                    /\ snapshots'[t] = snapshots[t]
C24_ExpirationRerun == [][C24_Step]_vars

\* the half-open intervals [effective_from, effective_to) of a and b share a day
IntervalsMeet(a, b) ==
    LET lo == IF a.effective_from >= b.effective_from
              THEN a.effective_from ELSE b.effective_from
    IN  /\ (a.effective_to = NULL \/ lo < a.effective_to)
        /\ (b.effective_to = NULL \/ lo < b.effective_to)

\* C26: at every commit no two assignments of the same (company, employee,
\* policy) overlap on their half-open intervals [effective_from,
\* effective_to), under any interleaving of create_assignment and
\* end_date_assignment calls, concurrent creates included.
C26_NoOverlappingAssignments ==
    \A a \in assignments : \A b \in assignments :
        (/\ a.id # b.id
         /\ a.company_id = b.company_id
         /\ a.employee_id = b.employee_id
         /\ a.policy_id = b.policy_id) => ~IntervalsMeet(a, b)

OpenVersions(policy_id) == {v \in VersionRows(policy_id) : v.effective_to = NULL}

\* C27: at every commit every policy has exactly one version with
\* effective_to = NULL, and that version carries the largest version number
\* of the policy, whatever create_policy and update_policy calls ran and
\* however two updates of the same policy interleaved.
C27_OneOpenVersion ==
    \A p \in DOMAIN versions :
        /\ Cardinality(OpenVersions(p)) = 1
        /\ \A v \in OpenVersions(p) : \A u \in VersionRows(p) : u.version <= v.version

\* two updates of p1 read the same current version; one committed and the
\* other met the unique constraint on (policy_id, version)
C27_Witness ==
    \E i \in Txns :
        /\ tx[i].op = "update_policy" /\ tx[i].pc = "done"
        /\ tx[i].res = "Internal" /\ tx[i].policy_id = "p1"
        /\ Len(versions["p1"]) = 2
        /\ "p3" \in DOMAIN versions

\* C28: the versions of a policy are numbered 1, 2, ..., n without gaps,
\* every version but the last ends where the next one starts, effective_from
\* never decreases along the chain, and an update whose effective_from
\* precedes that of the current version is answered BadRequest and changes
\* nothing.
C28_Chain ==
    \A p \in DOMAIN versions :
        LET chain == versions[p] IN
        /\ \A k \in 1..Len(chain) : chain[k].version = k
        /\ \A k \in 1..(Len(chain) - 1) :
              /\ chain[k].effective_to = chain[k + 1].effective_from
              /\ chain[k].effective_from <= chain[k + 1].effective_from

C28_Step ==
    /\ C28_Chain'
    /\ \A i \in Txns, p \in DOMAIN versions :
          (/\ tx[i].pc = "idle" /\ tx'[i].op = "update_policy"
           /\ tx'[i].policy_id = p
           /\ get_current_version(p) # {}
           /\ \E v \in get_current_version(p) : tx'[i].effective_from < v.effective_from)
          => /\ tx'[i].pc = "done" /\ tx'[i].res = "BadRequest"
             /\ UNCHANGED <<dbvars, cfgvars>>

C28_ContiguousChain == [][C28_Step]_vars

\* p1 has three versions with three different effective_from dates, and an
\* update dated before the current version has just been refused
C28_Witness ==
    /\ Len(versions["p1"]) = 3
    /\ versions["p1"][1].effective_from < versions["p1"][2].effective_from
    /\ versions["p1"][2].effective_from < versions["p1"][3].effective_from
    /\ \E i \in Txns :
          /\ tx[i].op = "update_policy" /\ tx[i].pc = "done"
          /\ tx[i].res = "BadRequest" /\ tx[i].policy_id = "p1"

\* the dates the chains are probed on: every boundary and the days around
ProbeDates ==
    ChainDates \cup TargetDates \cup
    {Date(2025, 7, 1), Date(2025, 12, 31), Date(2026, 1, 3), Date(2027, 1, 1)}

EffectiveVersions(p, d) == {v \in VersionRows(p) : ActiveOn(v, d)}

\* the rows of an engine run that stem from assignment a
RowsOfAssignment(rows, a) ==
    {r \in rows : /\ r.company_id = a.company_id
                  /\ r.employee_id = a.employee_id
                  /\ r.policy_id = a.policy_id
                  /\ r.effective_from = a.effective_from}

\* C29: for every policy and every date d on or after the effective_from of
\* its first version exactly one version has effective_from <= d <
\* COALESCE(effective_to, +infinity), so a run of the time-based or payroll
\* accrual engine holds at most one row per active assignment and none for
\* another.
C29_Step ==
    /\ \A p \in DOMAIN versions' : \A d \in ProbeDates :
          d >= versions'[p][1].effective_from =>
              Cardinality(EffectiveVersions(p, d)') = 1
    /\ \A i \in Txns :
          (tx[i].pc = "idle" /\ tx'[i].op \in {"accrual", "payroll"})
          => /\ \A a \in assignments :
                  Cardinality(RowsOfAssignment(tx'[i].rows, a)) <=
                      (IF ActiveOn(a, tx'[i].target_date) THEN 1 ELSE 0)
             /\ \A r \in tx'[i].rows : \E a \in assignments :
                  r \in RowsOfAssignment(tx'[i].rows, a)

C29_OneEffectiveVersion == [][C29_Step]_vars

\* an accrual run for the day on which version 2 of p1 replaced version 1
\* has processed the one row of e1's assignment
C29_Witness ==
    \E i \in Txns :
        /\ tx[i].op = "accrual" /\ tx[i].pc = "done"
        /\ tx[i].processed = 1 /\ tx[i].posted = 1
        /\ Len(versions["p1"]) >= 2
        /\ versions["p1"][1].effective_to = tx[i].target_date
        /\ versions["p1"][2].effective_from = tx[i].target_date

\* C31: a submit of m minutes adds m to held and takes m from available, and
\* a deny or a cancel of that request gives the same m back, both leaving
\* accrued and used alone and advancing version by one: a submit followed by
\* a deny or cancel, with no other mutation of the triple in between,
\* restores accrued, used, held and available (version is 2 higher).
C31_Step ==
    \A i \in Txns :
        LET t == TripleOf(tx[i]) IN
        /\ (/\ tx[i].op = "submit" /\ tx[i].pc = "body" /\ tx'[i].pc = "done"
            /\ Len(requests') = Len(requests) + 1) =>
              LET m == requests'[Len(requests')].requested_minutes IN
              /\ m = tx[i].requested_minutes
              /\ snapshots'[t].accrued_minutes = Committed(t).accrued
              /\ snapshots'[t].used_minutes = Committed(t).used
              /\ snapshots'[t].held_minutes = Committed(t).held + m
              /\ snapshots'[t].available_minutes =
                    Committed(t).accrued - Committed(t).used - Committed(t).held - m
              /\ snapshots[t].exists =>
                    snapshots'[t].version = snapshots[t].version + 1
        /\ (/\ tx[i].op \in {"deny", "cancel"} /\ tx[i].pc = "body"
            /\ tx'[i].pc = "done" /\ tx'[i].res = "OK") =>
              LET m == requests[tx[i].rid].requested_minutes IN
              /\ requests'[tx[i].rid].requested_minutes = m
              /\ requests[tx[i].rid].id = tx[i].rid
              /\ snapshots[t].exists
              /\ snapshots'[t].accrued_minutes = snapshots[t].accrued_minutes
              /\ snapshots'[t].used_minutes = snapshots[t].used_minutes
              /\ snapshots'[t].held_minutes = snapshots[t].held_minutes - m
              /\ snapshots'[t].available_minutes = snapshots[t].available_minutes + m
              /\ snapshots'[t].version = snapshots[t].version + 1
C31_SubmitThenRelease == [][C31_Step]_vars

\* the only request of a triple was denied or cancelled right after its
\* submit: nothing is held and the whole accrued balance is available again
C31_Witness ==
    \E i \in Txns :
        LET t == TripleOf(tx[i]) IN
        /\ tx[i].op \in {"deny", "cancel"} /\ tx[i].pc = "done" /\ tx[i].res = "OK"
        /\ Cardinality(RowsOf(t, {"HOLD"})) = 1
        /\ snapshots[t].held_minutes = 0 /\ snapshots[t].used_minutes = 0
        /\ snapshots[t].accrued_minutes > 0
        /\ snapshots[t].available_minutes = snapshots[t].accrued_minutes

\* the actor of a cancel call is the request's employee or an admin
CancelActorAllowed(t, r) == t.user_id = r.employee_id \/ t.role = "admin"

\* C32 as stated: a cancel of an existing request by an actor who is neither
\* the request's employee nor an admin fails with Forbidden and changes
\* neither the request, the ledger nor the snapshot; a cancel succeeds only
\* for the employee or an admin.
C32_ForbiddenStep ==
    \A i \in Txns :
        /\ (/\ tx[i].pc = "idle" /\ tx'[i].op = "cancel"
            /\ tx'[i].rid <= Len(requests)
            /\ ~CancelActorAllowed(tx'[i], requests[tx'[i].rid]))
           => /\ tx'[i].pc = "done" /\ tx'[i].res = "Forbidden"
              /\ UNCHANGED dbvars
        /\ (tx'[i].op = "cancel" /\ tx'[i].pc = "done" /\ tx'[i].res = "OK")
           => CancelActorAllowed(tx'[i], requests'[tx'[i].rid])
C32_CancelForbidden == [][C32_ForbiddenStep]_vars

\* C32 (amended): a cancel succeeds only for the request's employee or an
\* admin; for any other actor it fails and changes neither the request, the
\* ledger nor the snapshot, with Forbidden when the request is SUBMITTED and
\* with BadRequest when it is not (the status is checked first).
C32_Step ==
    \A i \in Txns :
        /\ (/\ tx[i].pc = "idle" /\ tx'[i].op = "cancel"
            /\ tx'[i].rid <= Len(requests)
            /\ ~CancelActorAllowed(tx'[i], requests[tx'[i].rid]))
           => /\ tx'[i].pc = "done"
              /\ tx'[i].res = (IF requests[tx'[i].rid].status = "SUBMITTED"
                               THEN "Forbidden" ELSE "BadRequest")
              /\ UNCHANGED dbvars
        /\ (tx'[i].op = "cancel" /\ tx'[i].pc = "done" /\ tx'[i].res = "OK")
           => CancelActorAllowed(tx'[i], requests'[tx'[i].rid])
C32_CancelAuthorization == [][C32_Step]_vars

\* another employee's cancel of a SUBMITTED request was refused with
\* Forbidden and the hold is still in place
C32_Witness ==
    \E i \in Txns :
        /\ tx[i].op = "cancel" /\ tx[i].pc = "done" /\ tx[i].res = "Forbidden"
        /\ tx[i].user_id = "e2"
        /\ requests[tx[i].rid].status = "SUBMITTED"
        /\ snapshots[<<requests[tx[i].rid].company_id, requests[tx[i].rid].employee_id,
                       requests[tx[i].rid].policy_id>>].held_minutes > 0

\* C33: a call of an operator of company c2 that touches data of company c1
\* (requests, ledger entries, snapshots, policies, assignments) is answered
\* Forbidden or with an empty result (nothing found), and leaves c1's data
\* unchanged.  Every row of the model belongs to c1.
C33_Step ==
    \A i \in Txns :
        (tx'[i] # tx[i] /\ (tx'[i].user_id = Foreign.user_id \/ tx'[i].op = "payroll"))
        => /\ UNCHANGED <<requests, ledger, snapshots, versions, assignments>>
           /\ tx'[i].pc = "done" =>
                \/ tx'[i].res \in {"Forbidden", "NotFound"}
                \/ tx'[i].res = "OK" /\ tx'[i].ret = 0 /\ tx'[i].posted = 0
C33_TenantIsolation == [][C33_Step]_vars

(***************************************************************************)
(* The worker (worker.py run_accrual_loop).  Every cycle resolves today    *)
(* and runs the three engines one after another, each in a session of its  *)
(* own; `today` counts the cycles.  The worker's position is the run its   *)
(* session holds: a finished run stays in place until the next one opens.  *)
(***************************************************************************)
MaxCycles == 2
WorkerDays == Date(2026, 1, 1)..(Date(2026, 1, 1) + MaxCycles - 1)

\* mutant: a loop whose try blocks have no except clause
RunReturned(t) == t.pc = "done" /\ t.res = "OK"

\* the `async with` block of a run was left, by return or by an exception
\* that `except Exception: logger.exception(...)` swallowed
RunEnded(t) == t.pc = "done"

\* today = date.today(); run_time_based_accruals in a new session
WorkerAccrual(i) ==
    /\ today \in WorkerDays
    /\ NoEngineInFlight
    /\ AccrualStart(i, today)

\* the state of a session in which run_carryover_processing has started
CarryoverBegin(target_date) ==
    LET t == [IdleTx EXCEPT !.op = "carryover", !.target_date = target_date] IN
    IF MonthOf(target_date) # 1 \/ DayOf(target_date) # 1
    THEN Outcome(t, "OK", "Carryover skipped: target_date is not Jan 1", 0)
    ELSE [t EXCEPT !.pc = "loop",
                   !.rows = find_active_accrual_assignments(target_date)]

\* run_carryover_processing in a new session, after the accrual block
WorkerCarryover(i) ==
    /\ tx[i].op = "accrual" /\ RunEnded(tx[i])
    /\ tx' = [tx EXCEPT ![i] = CarryoverBegin(today)]
    /\ UNCHANGED <<dbvars, lock, cfgvars>>

\* run_expiration_processing in a new session, after the carryover block
WorkerExpiration(i) ==
    /\ tx[i].op = "carryover" /\ RunEnded(tx[i])
    /\ tx' = [tx EXCEPT ![i] =
                [IdleTx EXCEPT !.op = "expiration", !.pc = "loop",
                               !.target_date = today,
                               !.rows = find_active_accrual_assignments(today)]]
    /\ UNCHANGED <<dbvars, lock, cfgvars>>

\* await asyncio.sleep(ACCRUAL_INTERVAL_SECONDS): the next cycle is a day later
WorkerSleep(i) ==
    /\ tx[i].op = "expiration" /\ RunEnded(tx[i])
    /\ tx' = [tx EXCEPT ![i] = IdleTx]
    /\ today' = today + 1
    /\ UNCHANGED <<dbvars, lock, versions, assignments>>

\* the steps of the worker task
WorkerRun ==
    \E i \in Txns :
        \/ WorkerAccrual(i)
        \/ /\ IsEngine(tx[i].op)
           /\ \/ SnapLock(i) \/ SnapCreateOk(i) \/ SnapCreateFail(i)
              \/ AccrualRow(i) \/ AccrualPost(i)
              \/ CarryoverRow(i) \/ CarryoverPost(i)
              \/ ExpirationRow(i) \/ ExpirationPost(i)
              \/ EngineCommit(i)
        \/ WorkerCarryover(i)
        \/ WorkerExpiration(i)
        \/ WorkerSleep(i)

\* the steps of a request handler that has started
HandlerRun ==
    \E i \in Txns :
        /\ ~IsEngine(tx[i].op)
        /\ \/ SnapLock(i) \/ SnapCreateOk(i) \/ SnapCreateFail(i)
           \/ AdjustBody(i) \/ Return(i)

(***************************************************************************)
(* The worker next to admin adjustments of the API.                        *)
(***************************************************************************)
WorkerNext ==
    \/ \E i \in Txns : SnapLock(i)
    \/ \E i \in Txns : SnapCreateOk(i)
    \/ \E i \in Txns : SnapCreateFail(i)
    \/ \E i \in Txns, payload \in AdjustmentPayloads :
          AdjustStart(i, Admin, payload) /\ AdjustBudget(MaxAdjustments)
    \/ \E i \in Txns : AdjustBody(i)
    \/ \E i \in Txns : WorkerAccrual(i)
    \/ \E i \in Txns : AccrualRow(i)
    \/ \E i \in Txns : AccrualPost(i)
    \/ \E i \in Txns : WorkerCarryover(i)
    \/ \E i \in Txns : CarryoverRow(i)
    \/ \E i \in Txns : CarryoverPost(i)
    \/ \E i \in Txns : WorkerExpiration(i)
    \/ \E i \in Txns : ExpirationRow(i)
    \/ \E i \in Txns : ExpirationPost(i)
    \/ \E i \in Txns : EngineCommit(i)
    \/ \E i \in Txns : WorkerSleep(i)
    \/ \E i \in Txns : ~IsEngine(tx[i].op) /\ Return(i)

WorkerSpec == Init /\ [][WorkerNext]_vars

\* the event loop resumes the worker task whenever it can run, and a
\* handler that has started runs to its response
WorkerFairSpec == WorkerSpec /\ SF_vars(WorkerRun) /\ WF_vars(HandlerRun)

\* a session is running (or has ended) the run `op` of the cycle of day d
RunOf(op, d) == \E i \in Txns : tx[i].op = op /\ tx[i].target_date = d

C34_Step ==
    \A i \in Txns :
        /\ (tx'[i].op = "carryover" /\ tx[i].op # "carryover") =>
                tx[i].op = "accrual" /\ tx[i].pc = "done"
                /\ tx[i].target_date = today /\ tx'[i].target_date = today
        /\ (tx'[i].op = "expiration" /\ tx[i].op # "expiration") =>
                tx[i].op = "carryover" /\ tx[i].pc = "done"
                /\ tx[i].target_date = today /\ tx'[i].target_date = today
        /\ (tx'[i].op = "accrual" /\ tx[i].op # "accrual") =>
                NoEngineInFlight /\ tx'[i].target_date = today
        /\ today' # today =>
                \E j \in Txns : tx[j].op = "expiration" /\ tx[j].pc = "done"
                                /\ tx[j].target_date = today
        /\ (IsEngine(tx'[i].op) /\ tx'[i].op # tx[i].op) =>
                /\ tx'[i].wledger = {} /\ tx'[i].waudit = {} /\ ~tx'[i].failed
                /\ \A t \in Triples : lock'[t] # i /\ lock[t] # i
        /\ (IsEngine(tx[i].op) /\ tx[i].pc # "done" /\ tx'[i].pc = "done"
                /\ tx'[i].res # "OK") =>
                UNCHANGED dbvars

\* C34: in every cycle the worker runs accrual, then carryover, then
\* expiration, each in its own transaction (a run opens with nothing
\* pending and no lock, after the previous run has ended); a run that ends
\* with an exception leaves the committed rows of the other runs alone, the
\* next run of the cycle follows it all the same, and after the expiration
\* run the worker reaches the next cycle
C34_WorkerCycle ==
    /\ [][C34_Step]_vars
    /\ \A d \in WorkerDays :
        /\ (today = d /\ NoEngineInFlight) ~> RunOf("accrual", d)
        /\ RunOf("accrual", d) ~> RunOf("carryover", d)
        /\ RunOf("carryover", d) ~> RunOf("expiration", d)
        /\ RunOf("expiration", d) ~> (today = d + 1)

\* the accrual run of Jan 1 raised (no ACCRUAL row of this cycle exists) and
\* the carryover run of the same cycle has committed its marker
C34_Witness ==
    /\ today = Date(2026, 1, 1)
    /\ \E i \in Txns : tx[i].op = "carryover" /\ tx[i].pc = "done"
                       /\ tx[i].res = "OK" /\ tx[i].posted > 0
    /\ ~\E x \in ledger : x.entry_type = "ACCRUAL"
    /\ \E x \in ledger : x.entry_type = "CARRYOVER"

(***************************************************************************)
(* Scenario S3: a monthly time-accrual policy with DAYS_ACTIVE proration,  *)
(* one assignment that starts on some day of January 2025, and the admin   *)
(* accrual trigger (api/accruals.py trigger_accruals).                     *)
(***************************************************************************)
S3JoinDates == Date(2025, 1, 1)..Date(2025, 1, 31)
S3TargetDates == {Date(2025, 1, 1), Date(2025, 1, 31), Date(2025, 2, 1)}

S3Init ==
    /\ today = Date(2025, 1, 1)
    /\ versions = [p \in Policies |->
            IF p = "p1"
            THEN <<PolicyVersion(1, Date(2025, 1, 1), NULL, TimeAccrualSettings)>>
            ELSE <<PolicyVersion(1, Date(2025, 1, 1), NULL, HoursWorkedAccrualSettings)>>]
    /\ \E effective_from \in S3JoinDates :
            assignments = {Assignment(1, "c1", "e1", "p1", effective_from, NULL)}
    /\ requests = <<>>
    /\ ledger = {}
    /\ snapshots = [t \in Triples |-> NoSnapshot]
    /\ audit = {}
    /\ lock = [t \in Triples |-> 0]
    /\ tx = [i \in Txns |-> IdleTx]

S3Next ==
    \/ \E i \in Txns, d \in S3TargetDates : AccrualStart(i, d) /\ NoEngineInFlight
    \/ \E i \in Txns : AccrualRow(i)
    \/ \E i \in Txns : SnapLock(i)
    \/ \E i \in Txns : SnapCreateOk(i)
    \/ \E i \in Txns : AccrualPost(i)
    \/ \E i \in Txns : EngineCommit(i)
    \/ \E i \in Txns : Return(i)

S3Spec == S3Init /\ [][S3Next]_vars

\* C35: in S3 (assignment effective from 2025-01-15) the trigger for
\* 2025-01-01 yields an ACCRUAL of (480 * 17) div 31 = 263 minutes
C35_S3Proration ==
    \A i \in Txns :
        (/\ tx[i].op = "accrual" /\ tx[i].pc = "done"
         /\ tx[i].target_date = Date(2025, 1, 1)
         /\ \E a \in assignments : a.effective_from = Date(2025, 1, 15))
        => \E x \in ledger :
                /\ x.entry_type = "ACCRUAL" /\ x.employee_id = "e1"
                /\ x.policy_id = "p1"
                /\ x.amount_minutes = (480 * 17) \div 31

\* the ledger rows of request rid
RowsOfRequest(L, rid) ==
    {x \in L : x.source_type = "REQUEST" /\ x.source_id = RequestSourceId(rid)}

EntryTypes(L) == {x.entry_type : x \in L}

Decisions == {"approve", "deny", "cancel"}

C36_Step ==
    /\ \A rid \in 1..Len(requests) :
        LET r == requests[rid]
            after == requests'[rid]
            t == <<r.company_id, r.employee_id, r.policy_id>>
            m == r.requested_minutes
            added == RowsOfRequest(ledger', rid) \ RowsOfRequest(ledger, rid)
        IN
        /\ r.status # "SUBMITTED" =>
                /\ after.status = r.status
                /\ RowsOfRequest(ledger', rid) = RowsOfRequest(ledger, rid)
        /\ (r.status = "SUBMITTED" /\ after.status # "SUBMITTED") =>
                /\ \E i \in Txns :
                        /\ tx[i].op \in Decisions /\ tx[i].rid = rid
                        /\ tx[i].pc = "body" /\ tx'[i].pc = "done" /\ tx'[i].res = "OK"
                        /\ after.status = tx[i].new_status
                /\ EntryTypes(added) = IF after.status = "APPROVED"
                                       THEN {"HOLD_RELEASE", "USAGE"}
                                       ELSE {"HOLD_RELEASE"}
                /\ snapshots'[t].held_minutes = snapshots[t].held_minutes - m
                /\ snapshots'[t].used_minutes = snapshots[t].used_minutes
                        + (IF after.status = "APPROVED" THEN m ELSE 0)
                /\ snapshots'[t].accrued_minutes = snapshots[t].accrued_minutes
    /\ \A i \in Txns :
        (/\ tx[i].op \in Decisions /\ tx[i].pc = "body"
         /\ tx'[i].pc = "done" /\ tx'[i].res # "OK") =>
                /\ UNCHANGED dbvars
                /\ requests[tx[i].rid].status # "SUBMITTED"

C36_Decided ==
    \A rid \in 1..Len(requests) :
        requests[rid].status # "SUBMITTED" =>
            /\ EntryTypes(RowsOfRequest(ledger, rid)) =
                    IF requests[rid].status = "APPROVED"
                    THEN {"HOLD", "HOLD_RELEASE", "USAGE"}
                    ELSE {"HOLD", "HOLD_RELEASE"}
            /\ Cardinality(RowsOfRequest(ledger, rid)) =
                    IF requests[rid].status = "APPROVED" THEN 3 ELSE 2

\* C36: of the approve, deny and cancel calls that run concurrently on one
\* SUBMITTED request exactly one commits: the status leaves SUBMITTED once,
\* by the call that commits, with that decision's ledger rows and snapshot
\* update and nothing else; a decided request and its rows never change
\* again, and a call that loses ends in an error with nothing committed
C36_OneDecisionWins == [][C36_Step]_vars /\ []C36_Decided

\* a deny that lost against an approve of the same request
C36_Witness ==
    \E i \in Txns :
        /\ tx[i].op = "deny" /\ tx[i].pc = "done" /\ tx[i].res = "Internal"
        /\ tx[i].rid \in 1..Len(requests)
        /\ requests[tx[i].rid].status = "APPROVED"

\* C37: no two SUBMITTED or APPROVED requests of one (company, employee,
\* policy) have overlapping intervals, concurrent submits included
C37_NoOverlappingRequests ==
    \A a \in 1..Len(requests), b \in 1..Len(requests) :
        (/\ a # b
         /\ requests[a].company_id = requests[b].company_id
         /\ requests[a].employee_id = requests[b].employee_id
         /\ requests[a].policy_id = requests[b].policy_id
         /\ requests[a].status \in {"SUBMITTED", "APPROVED"}
         /\ requests[b].status \in {"SUBMITTED", "APPROVED"})
        => ~(requests[a].start_at < requests[b].end_at
             /\ requests[a].end_at > requests[b].start_at)

(***************************************************************************)
(* Every operation on the triple of p1, whose only version has             *)
(* allow_negative = false: two requests of 480 minutes on different days   *)
(* (day 0 and day 2; day 1 is a holiday),                                  *)
(* a debit adjustment, and the three engines of the worker, whose monthly  *)
(* accrual of 480 minutes is the only credit.                              *)
(***************************************************************************)
MaxBalanceRequests == 2

BalanceSubmitPayloads ==
    {[employee_id |-> "e1", policy_id |-> "p1", start_at |-> 540, end_at |-> 1020,
      idempotency_key |-> ""],
     [employee_id |-> "e1", policy_id |-> "p1", start_at |-> 3420, end_at |-> 3900,
      idempotency_key |-> ""]}

BalanceAdjustmentPayloads ==
    {[employee_id |-> "e1", policy_id |-> "p1", amount_minutes |-> 0 - 240]}

BalanceNext ==
    \/ \E i \in Txns, payload \in BalanceSubmitPayloads :
          SubmitStart(i, Owner, payload)
          /\ RequestBudget(Owner, payload, MaxBalanceRequests)
    \/ \E i \in Txns : SnapLock(i)
    \/ \E i \in Txns : SnapCreateOk(i)
    \/ \E i \in Txns : SnapCreateFail(i)
    \/ \E i \in Txns : SubmitBody(i)
    \/ \E i \in Txns, rid \in 1..MaxBalanceRequests : ApproveStart(i, Admin, rid)
    \/ \E i \in Txns, rid \in 1..MaxBalanceRequests : DenyStart(i, Admin, rid)
    \/ \E i \in Txns, rid \in 1..MaxBalanceRequests : CancelStart(i, Owner, rid)
    \/ \E i \in Txns : ApproveBody(i)
    \/ \E i \in Txns : ReleaseHoldBody(i)
    \/ \E i \in Txns, payload \in BalanceAdjustmentPayloads :
          AdjustStart(i, Admin, payload) /\ AdjustBudget(MaxAdjustments)
    \/ \E i \in Txns : AdjustBody(i)
    \/ \E i \in Txns : AccrualStart(i, Date(2026, 1, 1)) /\ NoEngineInFlight
    \/ \E i \in Txns : AccrualRow(i)
    \/ \E i \in Txns : AccrualPost(i)
    \/ \E i \in Txns : CarryoverStart(i, Date(2026, 1, 1)) /\ NoEngineInFlight
    \/ \E i \in Txns : CarryoverRow(i)
    \/ \E i \in Txns : CarryoverPost(i)
    \/ \E i \in Txns : ExpirationStart(i, Date(2026, 1, 2)) /\ NoEngineInFlight
    \/ \E i \in Txns : ExpirationRow(i)
    \/ \E i \in Txns : ExpirationPost(i)
    \/ \E i \in Txns : EngineCommit(i)
    \/ \E i \in Txns : Return(i)

BalanceSpec == Init /\ [][BalanceNext]_vars

\* every version of the policy has allow_negative = false
NeverNegative(policy_id) ==
    \A v \in VersionRows(policy_id) :
        v.settings.type # "UNLIMITED" /\ ~v.settings.allow_negative

\* C38: for a triple whose policy versions all have allow_negative = false
\* the committed snapshot never shows a negative available balance, under
\* every interleaving of submit, approve, deny, cancel, adjustment, accrual,
\* carryover and expiration
C38_AvailableNonNegative ==
    \A t \in Triples :
        (NeverNegative(t[3]) /\ snapshots[t].exists) =>
            /\ snapshots[t].available_minutes >= 0
            /\ snapshots[t].available_minutes =
                  snapshots[t].accrued_minutes - snapshots[t].used_minutes
                    - snapshots[t].held_minutes

\* two submits of 480 minutes raced on a balance that fits one of them:
\* one is SUBMITTED, the other was refused by the balance check
C38_Witness ==
    \E i \in Txns :
        /\ tx[i].op = "submit" /\ tx[i].pc = "done" /\ tx[i].res = "BadRequest"
        /\ tx[i].msg = "Insufficient balance for this request"
        /\ Len(requests) = 1 /\ requests[1].status = "SUBMITTED"
        /\ requests[1].start_at # tx[i].start_at
        /\ snapshots[<<"c1", "e1", "p1">>].available_minutes + requests[1].requested_minutes
              >= tx[i].requested_minutes

\* the sum of requested_minutes over the requests of triple t in a status
MinutesIn(t, status) ==
    SumTerms({<<k, requests[k].requested_minutes>> :
                k \in {j \in 1..Len(requests) :
                        /\ <<requests[j].company_id, requests[j].employee_id,
                             requests[j].policy_id>> = t
                        /\ requests[j].status = status}})

\* C39: in every committed state the snapshot's held_minutes is the sum of
\* requested_minutes of the triple's SUBMITTED requests and its used_minutes
\* the sum over its APPROVED requests, so neither is ever negative
C39_HeldAndUsed ==
    \A t \in Triples :
        /\ snapshots[t].held_minutes = MinutesIn(t, "SUBMITTED")
        /\ snapshots[t].used_minutes = MinutesIn(t, "APPROVED")
        /\ snapshots[t].held_minutes >= 0
        /\ snapshots[t].used_minutes >= 0

\* a triple with one request approved and another still submitted
C39_Witness ==
    \E t \in Triples :
        /\ snapshots[t].held_minutes > 0 /\ snapshots[t].used_minutes > 0
        /\ MinutesIn(t, "SUBMITTED") > 0 /\ MinutesIn(t, "APPROVED") > 0

(***************************************************************************)
(* The carryover and expiration runs on policy p1 after an admin has       *)
(* replaced its settings: the new version switches carryover and           *)
(* expiration off, or lifts the carryover cap.  A run and an update never  *)
(* overlap here, so the current version is the same from the start of a    *)
(* run to its commit.                                                      *)
(***************************************************************************)
SupersedePayloads ==
    {[effective_from |-> Date(2025, 6, 1),
      settings |-> [TimeAccrualSettings EXCEPT !.carryover = CarryoverOff,
                                               !.expiration = ExpirationOff]],
     [effective_from |-> Date(2025, 6, 1),
      settings |-> [TimeAccrualSettings EXCEPT !.carryover.cap_minutes = 480]]}

NoUpdateInFlight == \A j \in Txns : tx[j].op # "update_policy"

SupersedeNext ==
    \/ \E i \in Txns, payload \in SupersedePayloads :
          /\ UpdatePolicyStart(i, Admin, "p1", payload)
          /\ VersionBudget("p1", payload)
          /\ NoEngineInFlight
    \/ \E i \in Txns : UpdatePolicyBody(i)
    \/ \E i \in Txns, payload \in MixedAdjustmentPayloads :
          AdjustStart(i, Admin, payload) /\ AdjustBudget(MaxAdjustments)
    \/ \E i \in Txns : AdjustBody(i)
    \/ \E i \in Txns : SnapLock(i)
    \/ \E i \in Txns : SnapCreateOk(i)
    \/ \E i \in Txns : SnapCreateFail(i)
    \/ \E i \in Txns, d \in TargetDates :
          CarryoverStart(i, d) /\ NoEngineInFlight /\ NoUpdateInFlight
    \/ \E i \in Txns : CarryoverRow(i)
    \/ \E i \in Txns : CarryoverPost(i)
    \/ \E i \in Txns, d \in TargetDates :
          ExpirationStart(i, d) /\ NoEngineInFlight /\ NoUpdateInFlight
    \/ \E i \in Txns : ExpirationRow(i)
    \/ \E i \in Txns : ExpirationPost(i)
    \/ \E i \in Txns : EngineCommit(i)
    \/ \E i \in Txns : Return(i)

SupersedeSpec == Init /\ [][SupersedeNext]_vars

CurrentVersionIds(policy_id) == {v.version : v \in get_current_version(policy_id)}

C40_Step ==
    /\ \A i \in Txns :
        (/\ tx[i].pc = "idle" /\ tx'[i].pc = "loop"
         /\ tx'[i].op \in {"carryover", "expiration"}) =>
            /\ \A r \in tx'[i].rows : r.version_id \in CurrentVersionIds(r.policy_id)
            /\ \A r, s \in tx'[i].rows : TripleOf(r) = TripleOf(s) => r = s
    /\ \A x \in ledger' \ ledger :
        x.entry_type \in {"EXPIRATION", "CARRYOVER"} =>
            /\ x.policy_version_id \in CurrentVersionIds(x.policy_id)
            /\ \E v \in get_current_version(x.policy_id) :
                    \/ get_carryover_settings(v.settings).enabled
                    \/ get_expiration_settings(v.settings).enabled

\* C40: a carryover or expiration run pairs every active assignment with
\* one policy version, the current one, processes it once, and posts an
\* EXPIRATION or a CARRYOVER marker only by the settings of that version
C40_CurrentVersionOnly == [][C40_Step]_vars

================================================================================
